---- MODULE Spec2Model ----
(***************************************************************************)
(* State-machine model of the soLite settlement engine, notification       *)
(* queue and PIN authorization (src/src/services, src/src/routes,          *)
(* src/src/utils/db.ts, src/database.sql).                                 *)
(*                                                                         *)
(* Every await in the TypeScript code is a point where another handler can *)
(* run; consecutive statements that touch only call-local data, or only    *)
(* tables no modelled operation writes, are folded into one action.        *)
(* pool.query (db.query) statements run on their own pooled connection and *)
(* are committed on their own; statements issued on a checked-out client   *)
(* between BEGIN and COMMIT stay invisible to other connections until the  *)
(* COMMIT.                                                                 *)
(*                                                                         *)
(* The specifications share the variables:                                 *)
(*   Spec              sendTokens, the transaction webhook and             *)
(*                     recordIncomingTransaction against the Ledger Network*)
(*   SpecAuth          processCommand with its PIN gate, verifyPin,        *)
(*                     setupPin                                            *)
(*   SpecDrain         queueNotification and processNotificationQueue      *)
(*   SpecDrainLive     the scheduled drain next to setupPin, with fairness *)
(*   SpecPrefs         the NOTIFICATIONS command next to the enqueues      *)
(*   SpecCleanup       cleanupOldNotifications next to the drain           *)
(*   SpecSecurity      the operations of authService on PIN, second factor *)
(*                     and one-time codes                                  *)
(*   SpecSecurityLive  the same operations, with fairness                  *)
(*   SpecSetupPinLive  setupPin calls, with fairness                       *)
(*   SpecVerifyPinLive verifyPin calls, with fairness                      *)
(*   SpecSend2FA       the gated commands next to the one-time codes       *)
(*   SpecVerifyCode    verifyCode calls on one stored code                 *)
(*   SpecCodeExpiry    verifyCode calls while the stored code expires      *)
(*   SpecWallets       CREATE commands and createWallet calls              *)
(*   SpecIncoming      recordIncomingTransaction with any arguments        *)
(*   SpecSendCommand   the gated commands of users with contacts           *)
(*   SpecParse         SMS texts, parsed by parseCommand and carried out   *)
(*   SpecPinSetup      testPINSetup for a new phone number, with fairness  *)
(*   SpecContacts      addContact calls                                    *)
(*   SpecWebhook       POST requests to the /webhook routes                *)
(*   SpecTokenCache    addSupportedToken next to the cached lookups of     *)
(*                     tokenService                                        *)
(*   SpecWatcher       a SEND command next to the Blockchain Event         *)
(*                     Watcher, with fairness                              *)
(***************************************************************************)
EXTENDS Integers, Sequences, FiniteSets, TLC

VARIABLES
  calls,                \* in-flight and finished handler invocations
  transactions,         \* committed rows of table transactions
  notification_queue,   \* rows of table notification_queue, in created_at order
  users,                \* rows of table users, keyed by phone number
  bal,                  \* Ledger Network: balance per address and asset
  landed,               \* Ledger Network: transfers that landed on chain
  nextSig,              \* Ledger Network: next signature to hand out
  drains,               \* invocations of processNotificationQueue
  now,                  \* database clock, in minutes
  verification_codes,   \* rows of table verification_codes, in created_at order
  wallets,              \* rows of table wallets, in created_at order
  contacts,             \* rows of table contacts
  testRun,              \* position, PIN and responses of testPINSetup
  supported_tokens,     \* rows of table supported_tokens
  token_prices,         \* rows of table token_prices
  tokenCache,           \* tokenService: the entries of the NodeCache
  lookups               \* invocations of tokenService's cached lookups

vars == <<calls, transactions, notification_queue, users, bal, landed, nextSig,
          drains, now, verification_codes, wallets, contacts, testRun,
          supported_tokens, token_prices, tokenCache, lookups>>

ledgerVars == <<bal, landed, nextSig>>
drainVars == <<drains, now>>
directoryVars == <<wallets, contacts>>
tokenVars == <<supported_tokens, token_prices, tokenCache, lookups>>

----------------------------------------------------------------------------
(* Bounds *)

MaxCalls == 2        \* handler invocations per behaviour
MaxSig == 2          \* transfers the ledger accepts per behaviour
MaxAmount == 2       \* largest amount a command asks for
PinLen == 2          \* digits of a generated PIN
MaxDrains == 2       \* overlapping invocations of processNotificationQueue
MaxQueue == 2        \* rows of notification_queue
MaxLimit == 2        \* largest limit passed to processNotificationQueue
MaxNow == 2          \* minutes the clock advances
MaxDeliveries == 2   \* hand-overs of one notification to the gateway
MaxFaults == 1       \* rollbacks per invocation slot of processNotificationQueue
MaxWordLen == 2      \* characters of the amount word of a SEND message
MaxLookups == 2      \* cached lookups of tokenService per behaviour

(* Program constants *)

Fee == 1             \* lamports + 5000 in sendSol, in model units
CodeTtlMinutes == 15          \* authService.ts: expiresAt = now + 15 minutes
MaxAliasLength == 20          \* database.sql: alias VARCHAR(20)
DefaultMaxRetries == 3
RetentionDays == 30           \* db.ts: cleanupOldNotifications(30)

----------------------------------------------------------------------------
(* Static data of the modelled deployment *)

Phones == {"u1", "u2", "p0"}          \* p0 has no users row / no wallet
InitialUsers == {"u1", "u2"}          \* the users rows at the start
Registered == DOMAIN users            \* the phone numbers with a users row
KnownWallets == {"a1", "a2"}          \* the wallets at the start
NewKeys == {"a3", "a4"}               \* public keys generateKeypair hands out
TokenSymbols == {"SOL", "USDC", "XYZ"}
Calls == 1..MaxCalls
Drains == 1..MaxDrains

\* new PublicKey(s) succeeds
IsValidAddress(a) == a \in {"a1", "a2", "x"} \cup NewKeys

\* a wallets row
WalletRow(u, publicKey) == [user |-> u, public_key |-> publicKey, is_active |-> TRUE]

\* the positions of the active wallets of a phone number, oldest first
ActiveWallets(p) ==
  {i \in DOMAIN wallets : wallets[i].user = p /\ wallets[i].is_active}

\* walletService.getWalletByPhoneNumber: the latest active wallet of a phone
\* number (ORDER BY created_at DESC LIMIT 1)
getWalletByPhoneNumber(p) ==
  IF ActiveWallets(p) = {} THEN "none"
  ELSE wallets[CHOOSE i \in ActiveWallets(p) : \A j \in ActiveWallets(p) : j <= i].public_key

\* SELECT w.id, w.user_id FROM wallets w WHERE w.public_key = $1
walletOwner(a) ==
  IF \E i \in DOMAIN wallets : wallets[i].public_key = a
  THEN wallets[CHOOSE i \in DOMAIN wallets : wallets[i].public_key = a].user
  ELSE "none"

\* a supported_tokens row; by: the request that wrote it (0: the seed data),
\* version: its place in the order of the writes to the table
TokenRow(mintAddress, symbol, decimals, by, version) ==
  [mint_address |-> mintAddress, symbol |-> symbol, decimals |-> decimals,
   is_active |-> TRUE, by |-> by, version |-> version]

\* the supported_tokens rows at the start
InitialTokens == {TokenRow("mUSDC", "USDC", 6, 0, 0)}

\* no row
NoTokenRow == TokenRow("none", "none", 0, 0, 0)

\* tokenService.getTokenBySymbol: the active supported_tokens row of a symbol
getTokenBySymbol(sym) ==
  IF \E row \in supported_tokens : row.symbol = sym /\ row.is_active
  THEN sym ELSE "none"

\* alias texts a user can type, and other recipient texts: the address of a
\* wallet, and a text of 32 characters that is no address
AliasTexts ==
  {"MAMA", "mama", " Mama", "PAPA", "GRANDMOTHER_FROM_ODESSA", "Grandmother_from_Odessa"}
RecipientTexts == {"a2", "MAMA", "mama", "bad"}

\* recipient.length < 32: aliases are short, addresses are not
ShorterThan32(text) == text \in AliasTexts

\* alias.trim().toUpperCase()
normalizeAlias(alias) ==
  CASE alias \in {"MAMA", "mama", " Mama"} -> "MAMA"
    [] alias = "PAPA" -> "PAPA"
    [] alias \in {"GRANDMOTHER_FROM_ODESSA", "Grandmother_from_Odessa"}
         -> "GRANDMOTHER_FROM_ODESSA"
    [] OTHER -> alias

\* alias VARCHAR(20): a longer value makes the INSERT fail
FitsAliasColumn(normalizedAlias) == Len(normalizedAlias) <= MaxAliasLength

\* a contacts row
ContactRow(u, alias, walletAddress) ==
  [user |-> u, alias |-> alias, wallet_address |-> walletAddress]

\* the contacts rows of a phone number and normalized alias
ContactsOf(p, normalizedAlias) ==
  {row \in contacts : row.user = p /\ row.alias = normalizedAlias}

\* resolveAlias without the join on the sender's phone number
resolveAlias_AnyOwner(p, alias) ==
  IF \A row \in contacts : row.alias # normalizeAlias(alias) THEN "none"
  ELSE (CHOOSE row \in contacts : row.alias = normalizeAlias(alias)).wallet_address

\* contactService.resolveAlias: the stored address, or "none" for null
resolveAlias(p, alias) ==
  IF ContactsOf(p, normalizeAlias(alias)) = {} THEN "none"
  ELSE (CHOOSE row \in ContactsOf(p, normalizeAlias(alias)) : TRUE).wallet_address

----------------------------------------------------------------------------
(* PINs: strings as sequences of characters *)

Digits == {"1", "2"}
NoPin == <<>>                                   \* users.pin IS NULL
Strings(alphabet, n) == [1..n -> alphabet]

\* authService.generatePin: a string of PinLen digits
GeneratedPins == Strings(Digits, PinLen)

\* what a caller can pass to verifyPin
PinInputs == UNION {Strings(Digits \cup {" "}, n) : n \in 1..(PinLen + 1)}

\* String.prototype.padEnd(n, ' ')
padEnd(s, n) == IF Len(s) >= n THEN s ELSE s \o [i \in 1..(n - Len(s)) |-> " "]

\* crypto.timingSafeEqual on buffers of equal length
timingSafeEqual(a, b) == a = b

\* lines 120-123 of authService.ts
pinMatches(pin, storedPin) ==
  timingSafeEqual(padEnd(pin, Len(storedPin)), padEnd(storedPin, Len(pin)))

\* a users row: pin, pin_verified, two_factor_enabled (DEFAULT FALSE) and
\* notification_preferences.  Kept next to the row: wants, the setting of
\* each category by the user's last answered NOTIFICATIONS command.
UserRow(pin, verified, prefs) ==
  [pin |-> pin, pin_verified |-> verified, two_factor_enabled |-> FALSE,
   prefs |-> prefs, wants |-> prefs]

\* notification_preferences DEFAULT of table users
DefaultPrefs == [transactions |-> TRUE, security |-> TRUE, marketing |-> FALSE]

----------------------------------------------------------------------------
(* Call records *)

\* the text of a JSON request body: its apiKey member, its other members,
\* and whether the text is what JSON.stringify writes or has extra spaces
BodyText(format, apiKey, to, sig, mint, symbol) ==
  [format |-> format, apiKey |-> apiKey, to |-> to, sig |-> sig,
   mint |-> mint, symbol |-> symbol]

NoBody == BodyText("none", "none", "none", 0, "none", "none")

\* express.json(): req.body, the members of the text
parseJson(text) == [apiKey |-> text.apiKey, to |-> text.to, sig |-> text.sig,
                    mint |-> text.mint, symbol |-> text.symbol]

\* JSON.stringify(req.body): the members without extra spaces
stringify(body) ==
  BodyText("compact", body.apiKey, body.to, body.sig, body.mint, body.symbol)

\* crypto.createHmac('sha256', key).update(payload).digest('hex'): 64 hex
\* digits that stand for the key and the payload
Hmac(key, payload) == [key |-> key, payload |-> payload, length |-> 64]

\* no x-webhook-signature header, and a header that is no digest
NoSignature == [key |-> "none", payload |-> NoBody, length |-> 0]
ShortSignature == [key |-> "none", payload |-> NoBody, length |-> 10]

\* config.security
WebhookApiKey == "your-webhook-api-key"
WebhookSecret == "default_webhook_secret_change_in_production"

\* the text of an SMS, split at its spaces: the first four words and the
\* rest; the second word is kept as its characters, a missing word is empty
Message(w1, w2, w3, w4, rest) ==
  [w1 |-> w1, w2 |-> w2, w3 |-> w3, w4 |-> w4, rest |-> rest]

NoMessage == Message("", <<>>, "", "", "")

\* testPINSetup before its first command: step counts the responses
\* received, pin is the PIN extracted from the SETUP PIN response
NoRun == [step |-> 0, pin |-> NoPin, responses |-> <<>>]

Blank ==
  [kind |-> "none", pc |-> "idle", amount |-> 0, token |-> "none",
   recipient |-> "none", sender |-> "none", wallet |-> "none", balance |-> 0,
   sig |-> 0, pending |-> FALSE, ok |-> FALSE, msg |-> "none", fault |-> FALSE,
   submitted |-> FALSE, confirmed |-> FALSE, landedSig |-> 0, repeat |-> FALSE,
   cmd |-> "none", phone |-> "none", pinOk |-> FALSE, balanceRead |-> FALSE,
   historyRead |-> FALSE, input |-> <<>>, stored |-> <<>>, verifiedBefore |-> FALSE,
   verifiedAfter |-> FALSE, during |-> {}, settings |-> <<>>, prefsRead |-> <<>>,
   operation |-> "none", codeRead |-> 0, hadResetCode |-> FALSE,
   userFound |-> FALSE, alias |-> "none", contactFound |-> FALSE,
   route |-> "none", signature |-> NoSignature, body |-> NoBody, status |-> 0,
   keyDecrypted |-> FALSE, text |-> NoMessage, txn |-> "none",
   row |-> NoTokenRow]

\* A finished call: what it returned, next to the locals the properties read
Finish(r, ok, msg) ==
  [r EXCEPT !.pc = "done", !.ok = ok, !.msg = msg, !.pending = FALSE]

\* A call that returned before it read or wrote anything
Reject(kind, ok, msg) ==
  [Blank EXCEPT !.kind = kind, !.pc = "done", !.ok = ok, !.msg = msg]

\* slots are taken in order, so that permutations of the same calls coincide
CanStart(c) ==
  /\ calls[c].pc = "idle"
  /\ \A d \in Calls : d < c => calls[d].pc # "idle"

\* the row a call's INSERT INTO transactions writes
TxRow(c, r, type) ==
  [by |-> c, wallet |-> r.wallet, type |-> type, token |-> r.token,
   amount |-> r.amount, sig |-> r.sig, status |-> "COMPLETED"]

----------------------------------------------------------------------------
(* notificationService.queueNotification *)

NotificationTypes == {"TRANSACTION", "SECURITY", "MARKETING"}

\* the keys of notification_preferences a NOTIFICATIONS command writes
PreferenceKeys == {"transactions", "security", "marketing"}

\* the key under which the NOTIFICATIONS command stores the category of a type
PreferenceKey(type) ==
  CASE type = "TRANSACTION" -> "transactions"
    [] type = "SECURITY" -> "security"
    [] OTHER -> "marketing"

\* no failed attempt is on record for the row
NoExpect == [count |-> 0, at |-> 0]

\* a timestamp column that IS NULL; <<t>> stands for the timestamp t
NoTime == <<>>

\* the row queueNotification inserts: next_retry_at = NOW(), the other
\* columns at their defaults.  Kept next to the row: delivered counts the
\* hand-overs to the gateway, attempts the calls of sendSms, expect what the
\* last failed attempt is to leave in the row, optedOut whether the user's
\* last NOTIFICATIONS command for the category of the row had switched it off.
NotificationRow(u, type, c) ==
  [user |-> u, type |-> type, by |-> c, is_sent |-> FALSE, retry_count |-> 0,
   max_retries |-> DefaultMaxRetries, next_retry_at |-> now,
   created_at |-> now, sent_at |-> NoTime, delivered |-> 0,
   attempts |-> 0, expect |-> NoExpect,
   optedOut |-> ~users[u].wants[PreferenceKey(type)]]

\* type.toLowerCase()
toLowerCase(type) ==
  CASE type = "TRANSACTION" -> "transaction"
    [] type = "SECURITY" -> "security"
    [] OTHER -> "marketing"

\* preferences[typeKey] === false
preferenceIsFalse(prefs, typeKey) ==
  typeKey \in DOMAIN prefs /\ prefs[typeKey] = FALSE

\* notificationService.queueNotification, as a function of the table: the
\* user row is read, the category preference checked, the row inserted.
queueNotification(q, u, type, c) ==
  IF u \notin Registered THEN q
  ELSE IF preferenceIsFalse(users[u].prefs, toLowerCase(type)) THEN q
  ELSE Append(q, NotificationRow(u, type, c))

----------------------------------------------------------------------------
(* Ledger Network *)

Cost(asset, amount) == IF asset = "SOL" THEN amount + Fee ELSE amount

\* the transfer lands: balances move and a fresh signature is assigned
Land(from, to, asset, amount) ==
  /\ nextSig <= MaxSig
  /\ bal[from][asset] >= Cost(asset, amount)
  /\ landed' = landed \cup
       {[sig |-> nextSig, from |-> from, to |-> to, asset |-> asset, amount |-> amount]}
  /\ nextSig' = nextSig + 1
  /\ bal' = IF from = to
            THEN [bal EXCEPT ![from][asset] = @ - Cost(asset, amount) + amount]
            ELSE [bal EXCEPT ![from][asset] = @ - Cost(asset, amount),
                             ![to][asset] = @ + amount]

\* a transfer from outside the system to one of its wallets
Ledger_ExternalTransfer ==
  /\ \E to \in KnownWallets : Land("x", to, "SOL", 1)
  /\ UNCHANGED <<testRun, tokenVars, directoryVars, verification_codes, calls, transactions, notification_queue, users, drainVars>>

----------------------------------------------------------------------------
(* transactionService.sendTokens *)

\* sendTokens without the validation of the recipient address
sendTokens_Begin_AnyRecipient(r, p, amt, tok, rcp) ==
  LET w == getWalletByPhoneNumber(p)
      asset == IF tok = "SOL" THEN "SOL" ELSE getTokenBySymbol(tok)
      rej(msg) == [Reject("send", FALSE, msg) EXCEPT !.cmd = r.cmd, !.pinOk = r.pinOk,
                                                     !.txn = "open"]
  IN IF amt <= 0 THEN rej("Amount must be greater than 0")
     ELSE IF w = "none" THEN rej("No wallet found")
     ELSE IF asset = "none" THEN [rej("Unsupported token") EXCEPT !.keyDecrypted = TRUE]
     ELSE IF bal[w][asset] < amt
     THEN [rej("Insufficient balance") EXCEPT !.keyDecrypted = TRUE]
     ELSE [r EXCEPT !.kind = "send", !.pc = "checked", !.amount = amt, !.wallet = w,
                    !.token = asset, !.recipient = rcp, !.balance = bal[w][asset],
                    !.keyDecrypted = TRUE]

\* lines 22-106: BEGIN, the validations and the fresh balance read, for the
\* arguments (p, amt, tok, rcp); r carries what the caller noted on the call.
\* txn: what the call's client has seen after BEGIN when finally releases it
\* (line 150); a return inside the try block issues neither COMMIT nor
\* ROLLBACK, so the client goes back to the pool with txn = "open".
\* keyDecrypted: decryptPrivateKey (line 60) has run, after the wallet row
\* was found and before the token is resolved
sendTokens_Begin(r, p, amt, tok, rcp) ==
  LET w == getWalletByPhoneNumber(p)
      asset == IF tok = "SOL" THEN "SOL" ELSE getTokenBySymbol(tok)
      rej(msg) == [Reject("send", FALSE, msg) EXCEPT !.cmd = r.cmd, !.pinOk = r.pinOk,
                                                     !.txn = "open"]
  IN IF amt <= 0 THEN rej("Amount must be greater than 0")
     ELSE IF ~IsValidAddress(rcp) THEN rej("Invalid recipient address")
     ELSE IF w = "none" THEN rej("No wallet found")
     ELSE IF asset = "none" THEN [rej("Unsupported token") EXCEPT !.keyDecrypted = TRUE]
     ELSE IF bal[w][asset] < amt
     THEN [rej("Insufficient balance") EXCEPT !.keyDecrypted = TRUE]
     ELSE [r EXCEPT !.kind = "send", !.pc = "checked", !.amount = amt, !.wallet = w,
                    !.token = asset, !.recipient = rcp, !.balance = bal[w][asset],
                    !.keyDecrypted = TRUE]

\* the sendTokens calls that have begun and not returned
InFlightSends == {d \in Calls : calls[d].kind = "send" /\ calls[d].pc # "done"}

\* sendTokens called with arbitrary arguments; during notes the calls in
\* flight when this one begins
sendTokens_Validate(c) ==
  /\ CanStart(c)
  /\ \E p \in Phones, amt \in 0..MaxAmount, tok \in TokenSymbols, rcp \in {"a2", "bad"} :
       calls' = [calls EXCEPT ![c] =
         sendTokens_Begin([Blank EXCEPT !.during = InFlightSends], p, amt, tok, rcp)]
  /\ UNCHANGED <<testRun, tokenVars, directoryVars, verification_codes, transactions, notification_queue, users, ledgerVars, drainVars>>

\* catch block of sendTokens: ROLLBACK, return the failure message
sendTokens_Fail(r) == Finish([r EXCEPT !.txn = "rolledback"], FALSE, "Transaction failed")

\* solanaService.sendSol / sendSplToken: the balance check inside the sender
sendTokens_Precheck(c) ==
  /\ calls[c].kind = "send" /\ calls[c].pc = "checked"
  /\ LET r == calls[c]
     IN calls' = [calls EXCEPT ![c] =
          IF bal[r.wallet][r.token] < Cost(r.token, r.amount)
          THEN sendTokens_Fail(r)
          ELSE [r EXCEPT !.pc = "signing"]]
  /\ UNCHANGED <<testRun, tokenVars, directoryVars, verification_codes, transactions, notification_queue, users, ledgerVars, drainVars>>

\* sendAndConfirmTransaction returns the signature of the landed transfer
sendTokens_Submit(c) ==
  /\ calls[c].kind = "send" /\ calls[c].pc = "signing"
  /\ LET r == calls[c]
     IN /\ Land(r.wallet, r.recipient, r.token, r.amount)
        /\ calls' = [calls EXCEPT ![c] =
             [r EXCEPT !.pc = "submitted", !.sig = nextSig, !.submitted = TRUE,
                       !.confirmed = TRUE, !.landedSig = nextSig]]
  /\ UNCHANGED <<testRun, tokenVars, directoryVars, verification_codes, transactions, notification_queue, users, drainVars>>

\* sendAndConfirmTransaction throws: the ledger rejected the transfer, or the
\* network failed before it was accepted
sendTokens_SubmitRejected(c) ==
  /\ calls[c].kind = "send" /\ calls[c].pc = "signing"
  /\ calls' = [calls EXCEPT ![c] =
       sendTokens_Fail([calls[c] EXCEPT !.submitted = TRUE])]
  /\ UNCHANGED <<testRun, tokenVars, directoryVars, verification_codes, transactions, notification_queue, users, ledgerVars, drainVars>>

\* the confirmation timeout taken for a confirmation: the call goes on to
\* record the transfer
sendTokens_SubmitTimeout_Recorded(c) ==
  /\ calls[c].kind = "send" /\ calls[c].pc = "signing"
  /\ LET r == calls[c]
     IN /\ Land(r.wallet, r.recipient, r.token, r.amount)
        /\ calls' = [calls EXCEPT ![c] =
             [r EXCEPT !.pc = "submitted", !.sig = nextSig, !.submitted = TRUE,
                       !.landedSig = nextSig]]
  /\ UNCHANGED <<testRun, tokenVars, directoryVars, verification_codes, transactions, notification_queue, users, drainVars>>

\* sendAndConfirmTransaction throws after the transfer landed: the
\* confirmation wait timed out
sendTokens_SubmitTimeout(c) ==
  /\ calls[c].kind = "send" /\ calls[c].pc = "signing"
  /\ LET r == calls[c]
     IN /\ Land(r.wallet, r.recipient, r.token, r.amount)
        /\ calls' = [calls EXCEPT ![c] =
             sendTokens_Fail([r EXCEPT !.submitted = TRUE, !.landedSig = nextSig])]
  /\ UNCHANGED <<testRun, tokenVars, directoryVars, verification_codes, transactions, notification_queue, users, drainVars>>

\* lines 121-127: INSERT INTO transactions on the call's client
sendTokens_Insert(c) ==
  /\ calls[c].kind = "send" /\ calls[c].pc = "submitted"
  /\ calls' = [calls EXCEPT ![c] = [@ EXCEPT !.pc = "inserted", !.pending = TRUE]]
  /\ UNCHANGED <<testRun, tokenVars, directoryVars, verification_codes, transactions, notification_queue, users, ledgerVars, drainVars>>

\* the INSERT throws: the catch block rolls back
sendTokens_InsertFails(c) ==
  /\ calls[c].kind = "send" /\ calls[c].pc = "submitted"
  /\ calls' = [calls EXCEPT ![c] = sendTokens_Fail([@ EXCEPT !.fault = TRUE])]
  /\ UNCHANGED <<testRun, tokenVars, directoryVars, verification_codes, transactions, notification_queue, users, ledgerVars, drainVars>>

\* lines 129-136: queueTransactionNotification, through the pool
sendTokens_Notify(c) ==
  /\ calls[c].kind = "send" /\ calls[c].pc = "inserted"
  /\ notification_queue' =
       queueNotification(notification_queue, walletOwner(calls[c].wallet), "TRANSACTION", c)
  /\ calls' = [calls EXCEPT ![c] = [@ EXCEPT !.pc = "notified"]]
  /\ UNCHANGED <<testRun, tokenVars, directoryVars, verification_codes, transactions, users, ledgerVars, drainVars>>

\* lines 138-144: COMMIT and the success result
sendTokens_Commit(c) ==
  /\ calls[c].kind = "send" /\ calls[c].pc = "notified"
  /\ transactions' = transactions \cup {TxRow(c, calls[c], "SEND")}
  /\ calls' = [calls EXCEPT ![c] = Finish([@ EXCEPT !.txn = "committed"], TRUE, "Sent")]
  /\ UNCHANGED <<testRun, tokenVars, directoryVars, verification_codes, notification_queue, users, ledgerVars, drainVars>>

\* COMMIT throws: the catch block rolls back
sendTokens_CommitFails(c) ==
  /\ calls[c].kind = "send" /\ calls[c].pc = "notified"
  /\ calls' = [calls EXCEPT ![c] = sendTokens_Fail([@ EXCEPT !.fault = TRUE])]
  /\ UNCHANGED <<testRun, tokenVars, directoryVars, verification_codes, transactions, notification_queue, users, ledgerVars, drainVars>>

----------------------------------------------------------------------------
(* webhookRoutes.handleTransaction and                                     *)
(* transactionService.recordIncomingTransaction                            *)

\* the call's locals, from the event of a landed transfer
Incoming(kind, e) ==
  [Blank EXCEPT !.kind = kind, !.pc = "recording", !.recipient = e.to,
                !.sender = e.from, !.amount = e.amount, !.token = e.asset,
                !.sig = e.sig]

\* SELECT id FROM transactions WHERE transaction_signature = $1 LIMIT 1
existingTx(sig) == \E t \in transactions : t.sig = sig

\* webhookRoutes.ts lines 77-111: a delivery of the event of a landed
\* transfer, up to the idempotency check
handleTransaction(c) ==
  /\ CanStart(c)
  /\ \E e \in landed :
       calls' = [calls EXCEPT ![c] =
         IF existingTx(e.sig)
         THEN [Reject("webhook", TRUE, "Transaction already processed") EXCEPT !.sig = e.sig]
         ELSE Incoming("webhook", e)]
  /\ UNCHANGED <<testRun, tokenVars, directoryVars, verification_codes, transactions, notification_queue, users, ledgerVars, drainVars>>

\* an earlier recording call of this signature has returned success
Recorded(sig) ==
  \E d \in Calls : /\ calls[d].kind \in {"webhook", "record"}
                   /\ calls[d].pc = "done" /\ calls[d].ok /\ calls[d].sig = sig

\* recordIncomingTransaction called directly with the data of a landed
\* transfer; repeat notes that this is call 2..N for the signature
recordIncomingTransaction(c) ==
  /\ CanStart(c)
  /\ \E e \in landed :
       calls' = [calls EXCEPT ![c] =
         [Incoming("record", e) EXCEPT !.repeat = Recorded(e.sig)]]
  /\ UNCHANGED <<testRun, tokenVars, directoryVars, verification_codes, transactions, notification_queue, users, ledgerVars, drainVars>>

\* what the caller sees when recordIncomingTransaction returns false
recordIncoming_False(r) ==
  Finish(r, FALSE, IF r.kind = "webhook" THEN "Recipient not found in system" ELSE "false")

\* recordIncomingTransaction called with any arguments, as the webhook
\* passes them on from a request body
recordIncomingTransaction_Any(c) ==
  /\ CanStart(c)
  /\ \E to \in {"a1", "a2", "x", "bad"}, sig \in 1..MaxSig :
       calls' = [calls EXCEPT ![c] =
         Incoming("record", [sig |-> sig, from |-> "x", to |-> to, asset |-> "SOL",
                             amount |-> 1])]
  /\ UNCHANGED <<testRun, tokenVars, directoryVars, verification_codes, transactions, notification_queue, users, ledgerVars, drainVars>>

\* the INSERT without the lookup of the recipient's wallet
recordIncomingTransaction_Insert_NoLookup(c) ==
  /\ calls[c].kind \in {"webhook", "record"} /\ calls[c].pc = "recording"
  /\ calls' = [calls EXCEPT ![c] =
       [@ EXCEPT !.pc = "inserted", !.wallet = calls[c].recipient, !.pending = TRUE]]
  /\ UNCHANGED <<testRun, tokenVars, directoryVars, verification_codes, transactions, notification_queue, users, ledgerVars, drainVars>>

\* lines 274-299: BEGIN, the wallet lookup and the INSERT on the call's client;
\* line 287 returns false for an unknown recipient with the transaction open
recordIncomingTransaction_Insert(c) ==
  /\ calls[c].kind \in {"webhook", "record"} /\ calls[c].pc = "recording"
  /\ LET r == calls[c]
     IN calls' = [calls EXCEPT ![c] =
          IF walletOwner(r.recipient) = "none"
          THEN recordIncoming_False([r EXCEPT !.txn = "open"])
          ELSE [r EXCEPT !.pc = "inserted", !.wallet = r.recipient, !.pending = TRUE]]
  /\ UNCHANGED <<testRun, tokenVars, directoryVars, verification_codes, transactions, notification_queue, users, ledgerVars, drainVars>>

\* a statement of the transaction throws: ROLLBACK, return false
recordIncomingTransaction_Fails(c) ==
  /\ calls[c].kind \in {"webhook", "record"} /\ calls[c].pc \in {"recording", "notified"}
  /\ calls' = [calls EXCEPT ![c] =
       recordIncoming_False([@ EXCEPT !.fault = TRUE, !.txn = "rolledback"])]
  /\ UNCHANGED <<testRun, tokenVars, directoryVars, verification_codes, transactions, notification_queue, users, ledgerVars, drainVars>>

\* lines 301-308: queueTransactionNotification, through the pool
recordIncomingTransaction_Notify(c) ==
  /\ calls[c].kind \in {"webhook", "record"} /\ calls[c].pc = "inserted"
  /\ notification_queue' =
       queueNotification(notification_queue, walletOwner(calls[c].wallet), "TRANSACTION", c)
  /\ calls' = [calls EXCEPT ![c] = [@ EXCEPT !.pc = "notified"]]
  /\ UNCHANGED <<testRun, tokenVars, directoryVars, verification_codes, transactions, users, ledgerVars, drainVars>>

\* lines 310-311: COMMIT, return true
recordIncomingTransaction_Commit(c) ==
  /\ calls[c].kind \in {"webhook", "record"} /\ calls[c].pc = "notified"
  /\ transactions' = transactions \cup {TxRow(c, calls[c], "RECEIVE")}
  /\ calls' = [calls EXCEPT ![c] = Finish([@ EXCEPT !.txn = "committed"], TRUE, "success")]
  /\ UNCHANGED <<testRun, tokenVars, directoryVars, verification_codes, notification_queue, users, ledgerVars, drainVars>>

----------------------------------------------------------------------------
(* authService.requirePin and commandParser.processCommand *)

GatedCommands == {"BALANCE", "SEND", "HISTORY"}

\* the guidance messages of requirePin
GuidanceMessages ==
  {"User not found. Please create a wallet first.",
   "Security not set up. Send SETUP PIN to secure your wallet.",
   "PIN not verified. Use VERIFY PIN <your-pin> to verify.",
   "Error checking security status. Please try again."}

\* requirePin with the catch block answering verified
requirePin_FailOpen(p, dbError) ==
  IF dbError
  THEN [verified |-> TRUE, message |-> "none"]
  ELSE IF p \notin Registered
  THEN [verified |-> FALSE, message |-> "User not found. Please create a wallet first."]
  ELSE IF users[p].pin = NoPin
  THEN [verified |-> FALSE, message |-> "Security not set up. Send SETUP PIN to secure your wallet."]
  ELSE IF ~users[p].pin_verified
  THEN [verified |-> FALSE, message |-> "PIN not verified. Use VERIFY PIN <your-pin> to verify."]
  ELSE [verified |-> TRUE, message |-> "none"]

\* requirePin with the stored PIN taken for a verified one
requirePin_AnyStoredPin(p, dbError) ==
  IF dbError
  THEN [verified |-> FALSE, message |-> "Error checking security status. Please try again."]
  ELSE IF p \notin Registered
  THEN [verified |-> FALSE, message |-> "User not found. Please create a wallet first."]
  ELSE IF users[p].pin = NoPin
  THEN [verified |-> FALSE, message |-> "Security not set up. Send SETUP PIN to secure your wallet."]
  ELSE [verified |-> TRUE, message |-> "none"]

\* authService.requirePin; dbError: the SELECT throws
requirePin(p, dbError) ==
  IF dbError
  THEN [verified |-> FALSE, message |-> "Error checking security status. Please try again."]
  ELSE IF p \notin Registered
  THEN [verified |-> FALSE, message |-> "User not found. Please create a wallet first."]
  ELSE IF users[p].pin = NoPin
  THEN [verified |-> FALSE, message |-> "Security not set up. Send SETUP PIN to secure your wallet."]
  ELSE IF ~users[p].pin_verified
  THEN [verified |-> FALSE, message |-> "PIN not verified. Use VERIFY PIN <your-pin> to verify."]
  ELSE [verified |-> TRUE, message |-> "none"]

\* the users row of p holds a PIN and pin_verified is true
PinUsable(p) == p \in Registered /\ users[p].pin # NoPin /\ users[p].pin_verified

\* processCommand for BALANCE, SEND and HISTORY, up to the PIN gate
\* (commandParser.ts lines 181-212); pinOk notes the PIN state of the sender
\* at the time of the gate
processCommand_Gate(c, p, cmd, dbError, amt, tok, rcp) ==
  LET pinCheck == requirePin(p, dbError)
  IN calls' = [calls EXCEPT ![c] =
       IF ~pinCheck.verified
       THEN [Reject("command", FALSE, pinCheck.message)
               EXCEPT !.cmd = cmd, !.pinOk = PinUsable(p)]
       ELSE [Blank EXCEPT !.kind = "command", !.pc = "gated", !.cmd = cmd,
                          !.phone = p, !.pinOk = PinUsable(p),
                          !.amount = amt, !.token = tok, !.recipient = rcp]]

\* processCommand for any sender and any of the gated commands
processCommand(c) ==
  /\ CanStart(c)
  /\ \E p \in Phones, cmd \in GatedCommands, dbError \in BOOLEAN,
        amt \in 0..MaxAmount, tok \in TokenSymbols, rcp \in RecipientTexts :
       /\ cmd # "SEND" => (amt = 0 /\ tok = "SOL" /\ rcp = "a2")
       /\ processCommand_Gate(c, p, cmd, dbError, amt, tok, rcp)
  /\ UNCHANGED <<testRun, tokenVars, directoryVars, verification_codes, transactions, notification_queue, users, ledgerVars, drainVars>>

\* the characters of an amount word, and the amount words
AmountChars == Digits \cup {"x"}
AmountWords == UNION {Strings(AmountChars, n) : n \in 1..MaxWordLen}

\* the messages users send: one word, a command or not; a command followed
\* by a second word; SEND <amount> SOL TO <recipient> in either case, with a
\* preposition or another word in its place
Messages ==
  {Message(w1, <<>>, "", "", "") : w1 \in {"BALANCE", "balance", "HISTORY", "HELLO"}}
  \cup {Message("BALANCE", <<"1">>, "", "", "")}
  \cup {Message(w1, w2, "SOL", w4, "a2") :
          w1 \in {"SEND", "send"}, w2 \in AmountWords, w4 \in {"TO", "AT"}}

\* String.prototype.toUpperCase on the words of a message and on the symbols
\* of tokens
toUpperCase(word) ==
  CASE word = "balance" -> "BALANCE"
    [] word = "send" -> "SEND"
    [] word = "xyz" -> "XYZ"
    [] OTHER -> word

\* the value of a string of digits
RECURSIVE DigitsValue(_)
DigitsValue(s) ==
  IF s = <<>> THEN 0
  ELSE 10 * DigitsValue(SubSeq(s, 1, Len(s) - 1))
       + (IF s[Len(s)] = "1" THEN 1 ELSE 2)

\* parseFloat: the number the longest numeric prefix of the string spells,
\* NaN when the string does not start with a number
parseFloat(s) ==
  LET n == CHOOSE k \in 0..Len(s) :
             /\ \A i \in 1..k : s[i] \in Digits
             /\ k < Len(s) => s[k + 1] \notin Digits
  IN [isNaN |-> n = 0, value |-> DigitsValue(SubSeq(s, 1, n))]

\* commandParser.parseCommand lines 28-165, for the one-word commands and
\* SEND: the whole message in upper case is compared with the one-word
\* commands; a message that starts with SEND and holds " to " after at least
\* three words is a SEND when parseFloat of its second word is a number
parseCommand(m) ==
  LET amount == parseFloat(m.w2)
  IN IF m.w2 = <<>> /\ toUpperCase(m.w1) \in {"CREATE", "BALANCE", "HISTORY"}
     THEN [command |-> toUpperCase(m.w1), amount |-> 0, tokenType |-> "", recipient |-> ""]
     ELSE IF /\ toUpperCase(m.w1) = "SEND" /\ m.w2 # <<>>
             /\ m.w4 = "TO" /\ m.rest # ""
             /\ m.w3 # ""
             /\ ~amount.isNaN
     THEN [command |-> "SEND", amount |-> amount.value,
           tokenType |-> toUpperCase(m.w3), recipient |-> m.rest]
     ELSE [command |-> "UNKNOWN", amount |-> 0, tokenType |-> "", recipient |-> ""]

\* processCommand lines 167-170: the inbound message is logged
processCommand_Receive(c) ==
  /\ CanStart(c)
  /\ \E p \in Phones, m \in Messages :
       calls' = [calls EXCEPT ![c] =
         [Blank EXCEPT !.kind = "message", !.pc = "received", !.phone = p, !.text = m]]
  /\ UNCHANGED <<testRun, tokenVars, directoryVars, verification_codes, transactions, notification_queue, users, ledgerVars, drainVars>>

\* processCommand lines 172-246: parseCommand and the switch.  UNKNOWN gets
\* the help message; BALANCE, SEND and HISTORY go to the PIN gate.
processCommand_Parse(c) ==
  /\ calls[c].kind = "message" /\ calls[c].pc = "received"
  /\ LET parsedCommand == parseCommand(calls[c].text)
     IN IF parsedCommand.command = "UNKNOWN"
        THEN calls' = [calls EXCEPT ![c] =
               [Reject("command", TRUE, "Available commands")
                  EXCEPT !.cmd = "UNKNOWN", !.text = calls[c].text]]
        ELSE \E dbError \in BOOLEAN :
               processCommand_Gate(c, calls[c].phone, parsedCommand.command, dbError,
                                   parsedCommand.amount, parsedCommand.tokenType,
                                   parsedCommand.recipient)
  /\ UNCHANGED <<testRun, tokenVars, directoryVars, verification_codes, transactions, notification_queue, users, ledgerVars, drainVars>>

\* commandParser.handleBalanceCommand: wallet lookup, balances read from the
\* ledger
handleBalanceCommand(c) ==
  /\ calls[c].kind = "command" /\ calls[c].pc = "gated" /\ calls[c].cmd = "BALANCE"
  /\ calls' = [calls EXCEPT ![c] =
       IF getWalletByPhoneNumber(@.phone) = "none"
       THEN Finish(@, FALSE, "No wallet found. Send CREATE to create a new wallet.")
       ELSE Finish([@ EXCEPT !.balanceRead = TRUE], TRUE, "balances")]
  /\ UNCHANGED <<testRun, tokenVars, directoryVars, verification_codes, transactions, notification_queue, users, ledgerVars, drainVars>>

\* commandParser.handleHistoryCommand: getTransactionHistory reads the
\* transactions of the sender
handleHistoryCommand(c) ==
  /\ calls[c].kind = "command" /\ calls[c].pc = "gated" /\ calls[c].cmd = "HISTORY"
  /\ calls' = [calls EXCEPT ![c] = Finish([@ EXCEPT !.historyRead = TRUE], TRUE, "history")]
  /\ UNCHANGED <<testRun, tokenVars, directoryVars, verification_codes, transactions, notification_queue, users, ledgerVars, drainVars>>

\* commandParser.handleSendCommand: the amount check, the lookup of a short
\* recipient text among the sender's contacts, then sendTokens up to its
\* balance read; alias keeps the recipient text of the command
handleSendCommand(c) ==
  /\ calls[c].kind = "command" /\ calls[c].pc = "gated" /\ calls[c].cmd = "SEND"
  /\ LET r == calls[c]
         resolvedAddress == IF ShorterThan32(r.recipient)
                            THEN resolveAlias(r.phone, r.recipient)
                            ELSE "none"
         resolvedRecipient == IF resolvedAddress # "none" THEN resolvedAddress
                              ELSE r.recipient
     IN calls' = [calls EXCEPT ![c] =
          IF r.amount <= 0
          THEN Finish(r, FALSE, "Invalid amount. Amount must be greater than 0.")
          ELSE sendTokens_Begin([Blank EXCEPT !.cmd = r.cmd, !.pinOk = r.pinOk,
                                               !.during = InFlightSends,
                                               !.alias = r.recipient],
                                r.phone, r.amount, r.token, resolvedRecipient)]
  /\ UNCHANGED <<testRun, tokenVars, directoryVars, verification_codes, transactions, notification_queue, users, ledgerVars, drainVars>>

----------------------------------------------------------------------------
(* authService.verifyPin and authService.setupPin *)

\* the operations of authService that SELECT the users row FOR UPDATE
LockingOperations ==
  {"verifyPin", "setupPin", "setup2FA", "disable2FA", "sendVerificationCode",
   "resetPin", "completeResetPin"}

\* the users row of p is locked FOR UPDATE by an open transaction
UserLocked(p) ==
  \E d \in Calls : /\ calls[d].kind \in LockingOperations
                   /\ calls[d].pc \in {"updated", "blocked"}
                   /\ calls[d].phone = p

\* verifyPin lines 97-140: BEGIN, SELECT ... FOR UPDATE, the comparison and,
\* on a first match, the UPDATE of pin_verified on the call's client.  The
\* early returns COMMIT a transaction that wrote nothing.
verifyPin(c) ==
  /\ CanStart(c)
  /\ \E p \in Phones, pin \in PinInputs :
       /\ ~UserLocked(p)
       /\ LET r == [Blank EXCEPT !.kind = "verifyPin", !.phone = p, !.input = pin]
          IN calls' = [calls EXCEPT ![c] =
               IF p \notin Registered
               THEN Finish(r, FALSE, "User not found. Please create a wallet first.")
               ELSE LET storedPin == users[p].pin
                        pinVerified == users[p].pin_verified
                        s == [r EXCEPT !.stored = storedPin, !.verifiedBefore = pinVerified,
                                       !.verifiedAfter = pinVerified]
                    IN IF storedPin = NoPin
                       THEN Finish(s, FALSE, "No PIN has been set. Send SETUP PIN to create one.")
                       ELSE IF ~pinMatches(pin, storedPin)
                       THEN Finish(s, FALSE, "Incorrect PIN. Please try again.")
                       ELSE IF pinVerified
                       THEN Finish(s, TRUE, "PIN already verified. Your account is secure.")
                       ELSE [s EXCEPT !.pc = "updated", !.pending = TRUE]]
  /\ UNCHANGED <<testRun, tokenVars, directoryVars, verification_codes, transactions, notification_queue, users, ledgerVars, drainVars>>

\* verifyPin lines 142-148: queueSecurityNotification through the pool, then
\* COMMIT.  With security notifications enabled the INSERT into
\* notification_queue waits for the key-share lock on the users row, which
\* the call's own open transaction holds FOR UPDATE: the call never returns.
verifyPin_Finish(c) ==
  /\ calls[c].kind = "verifyPin" /\ calls[c].pc = "updated"
  /\ LET p == calls[c].phone
     IN IF preferenceIsFalse(users[p].prefs, toLowerCase("SECURITY"))
        THEN /\ users' = [users EXCEPT ![p].pin_verified = TRUE]
             /\ calls' = [calls EXCEPT ![c] =
                  Finish([@ EXCEPT !.verifiedAfter = TRUE], TRUE,
                         "PIN verified successfully. Your account is now secure.")]
        ELSE /\ calls' = [calls EXCEPT ![c] = [@ EXCEPT !.pc = "blocked"]]
             /\ UNCHANGED users
  /\ UNCHANGED <<testRun, tokenVars, directoryVars, verification_codes, transactions, notification_queue, ledgerVars, drainVars>>

\* setupPin without the existing-PIN check
setupPin_Overwrite(c) ==
  /\ CanStart(c)
  /\ \E p \in Phones, newPin \in GeneratedPins :
       /\ ~UserLocked(p)
       /\ LET r == [Blank EXCEPT !.kind = "setupPin", !.phone = p]
          IN calls' = [calls EXCEPT ![c] =
               IF p \notin Registered
               THEN Finish(r, FALSE, "User not found. Please create a wallet first.")
               ELSE [r EXCEPT !.pc = "updated", !.pending = TRUE, !.input = newPin]]
  /\ UNCHANGED <<testRun, tokenVars, directoryVars, verification_codes, transactions, notification_queue, users, ledgerVars, drainVars>>

\* setupPin lines 38-72: BEGIN, SELECT ... FOR UPDATE, the existing-PIN check
\* and the UPDATE of pin on the call's client
setupPin(c) ==
  /\ CanStart(c)
  /\ \E p \in Phones, newPin \in GeneratedPins :
       /\ ~UserLocked(p)
       /\ LET r == [Blank EXCEPT !.kind = "setupPin", !.phone = p]
          IN calls' = [calls EXCEPT ![c] =
               IF p \notin Registered
               THEN Finish(r, FALSE, "User not found. Please create a wallet first.")
               ELSE IF users[p].pin # NoPin
               THEN Finish(r, FALSE, "PIN already exists. Use VERIFY PIN <your-pin> to verify your PIN.")
               ELSE [r EXCEPT !.pc = "updated", !.pending = TRUE, !.input = newPin]]
  /\ UNCHANGED <<testRun, tokenVars, directoryVars, verification_codes, transactions, notification_queue, users, ledgerVars, drainVars>>

\* setupPin lines 74-84: queueSecurityNotification through the pool, then
\* COMMIT; blocked like verifyPin when security notifications are enabled
setupPin_Finish(c) ==
  /\ calls[c].kind = "setupPin" /\ calls[c].pc = "updated"
  /\ LET p == calls[c].phone
     IN IF preferenceIsFalse(users[p].prefs, toLowerCase("SECURITY"))
        THEN /\ users' = [users EXCEPT ![p].pin = calls[c].input, ![p].pin_verified = FALSE]
             /\ calls' = [calls EXCEPT ![c] = Finish(@, TRUE, "Your new PIN is set")]
        ELSE /\ calls' = [calls EXCEPT ![c] = [@ EXCEPT !.pc = "blocked"]]
             /\ UNCHANGED users
  /\ UNCHANGED <<testRun, tokenVars, directoryVars, verification_codes, transactions, notification_queue, ledgerVars, drainVars>>

----------------------------------------------------------------------------
(* notificationService.processNotificationQueue *)

IdleDrain == [pc |-> "idle", batch |-> <<>>, pos |-> 0, writes |-> {}, started |-> 0,
              faults |-> 0]

\* the drain's transaction has ended; faults counts its rollbacks
EndDrain(d, rolledBack) ==
  [IdleDrain EXCEPT !.faults = drains[d].faults + (IF rolledBack THEN 1 ELSE 0)]

Range(s) == {s[i] : i \in DOMAIN s}

\* rows of notification_queue and of users an open drain holds FOR UPDATE
LockedRows(d) == Range(drains[d].batch)
LockedUsers(d) == {notification_queue[i].user : i \in LockedRows(d)}

\* a SELECT that takes no row locks
SkipLocked_NoLocks(d, i) == FALSE

\* FOR UPDATE SKIP LOCKED over the join: row i is passed over by drain d when
\* another open transaction holds the notification row or its users row
SkipLocked(d, i) ==
  \/ \E e \in Drains \ {d} :
       i \in LockedRows(e) \/ notification_queue[i].user \in LockedUsers(e)
  \/ UserLocked(notification_queue[i].user)

\* WHERE is_sent = false AND next_retry_at <= NOW() AND retry_count < max_retries
ReadyToSend(row) ==
  /\ ~row.is_sent
  /\ row.next_retry_at <= now
  /\ row.retry_count < row.max_retries

\* ORDER BY created_at ASC LIMIT $1
FirstN(s, n) == IF Len(s) <= n THEN s ELSE SubSeq(s, 1, n)

\* the result of the SELECT of lines 68-80 for drain d
SelectBatch(d, limit) ==
  FirstN(SelectSeq([i \in 1..Len(notification_queue) |-> i],
                   LAMBDA i : ReadyToSend(notification_queue[i]) /\ ~SkipLocked(d, i)),
         limit)

\* a handler enqueues a notification (queueNotification through the pool);
\* the INSERT waits while an open transaction holds the users row
Enqueue(types) ==
  /\ Len(notification_queue) < MaxQueue
  /\ \E u \in Registered, type \in types :
       /\ \A d \in Drains : u \notin LockedUsers(d)
       /\ ~UserLocked(u)
       /\ notification_queue' = queueNotification(notification_queue, u, type, 0)
  /\ UNCHANGED <<testRun, tokenVars, directoryVars, verification_codes, calls, transactions, users, ledgerVars, drainVars>>

\* time passes
Tick ==
  /\ now < MaxNow
  /\ now' = now + 1
  /\ UNCHANGED <<testRun, tokenVars, directoryVars, verification_codes, calls, transactions, notification_queue, users, ledgerVars, drains>>

\* lines 63-80: BEGIN and the SELECT ... FOR UPDATE SKIP LOCKED; an empty
\* result goes straight to the COMMIT.  NOW() is the start time of the
\* transaction in every statement of it.
processNotificationQueue_Select(d) ==
  /\ drains[d].pc = "idle"
  /\ \E limit \in 1..MaxLimit :
       drains' = [drains EXCEPT ![d] =
         [@ EXCEPT !.pc = "sending", !.batch = SelectBatch(d, limit), !.pos = 1,
                   !.writes = {}, !.started = now]]
  /\ UNCHANGED <<testRun, tokenVars, directoryVars, verification_codes, calls, transactions, notification_queue, users, ledgerVars, now>>

\* the update the loop body issues for the row at the drain's position
Current(d) == drains[d].batch[drains[d].pos]

\* line 101: Math.pow(2, newRetryCount)
backoffMinutes(newRetryCount) == 2 ^ newRetryCount

\* what a failed attempt on the row is to leave behind: the attempt count
\* after the increment, and NOW() of the attempt
Expect(d, row) == [count |-> row.retry_count + 1, at |-> drains[d].started]

\* lines 86-97: sendSms returns true, the row is marked sent on the drain's
\* client
processNotificationQueue_Sent(d) ==
  /\ drains[d].pc = "sending" /\ drains[d].pos <= Len(drains[d].batch)
  /\ notification_queue[Current(d)].delivered < MaxDeliveries
  /\ notification_queue' = [notification_queue EXCEPT
       ![Current(d)].delivered = @ + 1,
       ![Current(d)].attempts = @ + 1,
       ![Current(d)].expect = NoExpect]
  /\ drains' = [drains EXCEPT ![d] =
       [@ EXCEPT !.pos = @ + 1,
                 !.writes = @ \cup {[id |-> Current(d), is_sent |-> TRUE,
                                     retry_count |-> notification_queue[Current(d)].retry_count,
                                     next_retry_at |-> notification_queue[Current(d)].next_retry_at,
                                     sent_at |-> <<drains[d].started>>]}]]
  /\ UNCHANGED <<testRun, tokenVars, directoryVars, verification_codes, calls, transactions, users, ledgerVars, now>>

\* lines 98-112: sendSms returns false, the retry is scheduled with
\* exponential backoff
processNotificationQueue_NotSent(d) ==
  /\ drains[d].pc = "sending" /\ drains[d].pos <= Len(drains[d].batch)
  /\ notification_queue' = [notification_queue EXCEPT
       ![Current(d)].attempts = @ + 1,
       ![Current(d)].expect = Expect(d, notification_queue[Current(d)])]
  /\ LET newRetryCount == notification_queue[Current(d)].retry_count + 1
     IN drains' = [drains EXCEPT ![d] =
          [@ EXCEPT !.pos = @ + 1,
                    !.writes = @ \cup {[id |-> Current(d), is_sent |-> FALSE,
                                        retry_count |-> newRetryCount,
                                        next_retry_at |->
                                          drains[d].started + backoffMinutes(newRetryCount),
                                        sent_at |-> notification_queue[Current(d)].sent_at]}]]
  /\ UNCHANGED <<testRun, tokenVars, directoryVars, verification_codes, calls, transactions, users, ledgerVars, now>>

\* lines 86-150 and withTransaction's catch: sendSms returned (it never
\* throws) and the UPDATE throws; the UPDATE of the inner catch fails on the
\* aborted transaction, the error reaches withTransaction: ROLLBACK
processNotificationQueue_UpdateFails(d) ==
  /\ drains[d].pc = "sending" /\ drains[d].pos <= Len(drains[d].batch)
  /\ drains[d].faults < MaxFaults
  /\ \E sent \in BOOLEAN :
       /\ sent => notification_queue[Current(d)].delivered < MaxDeliveries
       /\ notification_queue' = [notification_queue EXCEPT
            ![Current(d)].delivered = IF sent THEN @ + 1 ELSE @,
            ![Current(d)].attempts = @ + 1,
            ![Current(d)].expect =
               IF sent THEN NoExpect ELSE Expect(d, notification_queue[Current(d)])]
  /\ drains' = [drains EXCEPT ![d] = EndDrain(d, TRUE)]
  /\ UNCHANGED <<testRun, tokenVars, directoryVars, verification_codes, calls, transactions, users, ledgerVars, now>>

\* the drain's updates applied to the table
ApplyWrites(q, writes) ==
  [i \in DOMAIN q |->
     IF \E w \in writes : w.id = i
     THEN LET w == CHOOSE w \in writes : w.id = i
          IN [q[i] EXCEPT !.is_sent = w.is_sent, !.retry_count = w.retry_count,
                          !.next_retry_at = w.next_retry_at, !.sent_at = w.sent_at]
     ELSE q[i]]

\* withTransaction line 90: COMMIT after the loop
processNotificationQueue_Commit(d) ==
  /\ drains[d].pc = "sending" /\ drains[d].pos > Len(drains[d].batch)
  /\ notification_queue' = ApplyWrites(notification_queue, drains[d].writes)
  /\ drains' = [drains EXCEPT ![d] = EndDrain(d, FALSE)]
  /\ UNCHANGED <<testRun, tokenVars, directoryVars, verification_codes, calls, transactions, users, ledgerVars, now>>

\* withTransaction lines 92-94: COMMIT throws, ROLLBACK
processNotificationQueue_CommitFails(d) ==
  /\ drains[d].pc = "sending" /\ drains[d].pos > Len(drains[d].batch)
  /\ drains[d].batch # <<>>
  /\ drains[d].faults < MaxFaults
  /\ drains' = [drains EXCEPT ![d] = EndDrain(d, TRUE)]
  /\ UNCHANGED <<testRun, tokenVars, directoryVars, verification_codes, calls, transactions, notification_queue, users, ledgerVars, now>>

----------------------------------------------------------------------------
(* notificationService.cleanupOldNotifications *)

\* INTERVAL '30 days' on the clock of the model, which counts minutes
RetentionMinutes == RetentionDays * 24 * 60

\* the WHERE clause without the age of the exhausted rows
CleanupMatches_AnyExhausted(row) ==
  \/ /\ row.is_sent
     /\ row.sent_at # NoTime
     /\ row.sent_at[1] < now - RetentionMinutes
  \/ row.retry_count >= row.max_retries

\* WHERE (is_sent = true AND sent_at < NOW() - INTERVAL '30 days')
\*    OR (retry_count >= max_retries AND created_at < NOW() - INTERVAL '30 days')
CleanupMatches(row) ==
  \/ /\ row.is_sent
     /\ row.sent_at # NoTime
     /\ row.sent_at[1] < now - RetentionMinutes
  \/ /\ row.retry_count >= row.max_retries
     /\ row.created_at < now - RetentionMinutes

\* the position of row i once the rows the DELETE matches are gone
PositionAfterCleanup(i) ==
  i - Cardinality({j \in 1..(i - 1) : CleanupMatches(notification_queue[j])})

\* cleanupOldNotifications lines 159-178: one DELETE through the pool; the
\* call returns the number of rows deleted.  The rows an open drain holds are
\* unsent with retry_count < max_retries in the committed table, so the
\* DELETE matches none of them and waits for no lock.
cleanupOldNotifications(c) ==
  /\ CanStart(c)
  /\ calls' = [calls EXCEPT ![c] =
       [Reject("cleanupOldNotifications", TRUE, "count") EXCEPT !.amount =
          Cardinality({i \in DOMAIN notification_queue :
                         CleanupMatches(notification_queue[i])})]]
  /\ notification_queue' =
       SelectSeq(notification_queue, LAMBDA row : ~CleanupMatches(row))
  /\ drains' = [d \in Drains |->
       [drains[d] EXCEPT
          !.batch = [k \in DOMAIN @ |-> PositionAfterCleanup(@[k])],
          !.writes = {[w EXCEPT !.id = PositionAfterCleanup(w.id)] : w \in @}]]
  /\ UNCHANGED <<testRun, tokenVars, directoryVars, verification_codes, transactions, users, ledgerVars, now>>

----------------------------------------------------------------------------
(* authService: setup2FA, disable2FA, sendVerificationCode, verifyCode,    *)
(* resetPin and completeResetPin                                           *)

\* the operation names codes are issued for
Operations == {"SEND", "PIN_RESET"}

\* authService.generateVerificationCode: a string of PinLen digits
GeneratedCodes == Strings(Digits, PinLen)

\* what a caller can pass to verifyCode: a code, or a code cut short
CodeInputs == GeneratedCodes \cup Strings(Digits, PinLen - 1)

\* the row sendVerificationCode and resetPin insert; id names the inserting call
CodeRow(c, u, code, operation) ==
  [id |-> c, user |-> u, code |-> code, operation |-> operation,
   is_used |-> FALSE, expires_at |-> now + CodeTtlMinutes, created_at |-> now]

\* DELETE FROM verification_codes WHERE user_id = u AND operation = operation
DeleteCodes(codes, u, operation) ==
  SelectSeq(codes, LAMBDA row : ~(row.user = u /\ row.operation = operation))

\* DELETE FROM verification_codes WHERE user_id = u
DeleteUserCodes(codes, u) == SelectSeq(codes, LAMBDA row : row.user # u)

\* the last statements of an operation that holds the users row:
\* queueSecurityNotification through the pool, then COMMIT, which makes the
\* staged writes visible.  With security notifications enabled the INSERT
\* into notification_queue waits for the key-share lock on the users row,
\* which the operation's own transaction holds: the call never returns.
CommitLocked(c, usersAfter, codesAfter, msg) ==
  IF preferenceIsFalse(users[calls[c].phone].prefs, toLowerCase("SECURITY"))
  THEN /\ users' = usersAfter
       /\ verification_codes' = codesAfter
       /\ calls' = [calls EXCEPT ![c] = Finish(@, TRUE, msg)]
  ELSE /\ calls' = [calls EXCEPT ![c] = [@ EXCEPT !.pc = "blocked"]]
       /\ UNCHANGED <<testRun, tokenVars, directoryVars, users, verification_codes>>

\* setup2FA without the pin_verified check
setup2FA_NoPinCheck(c) ==
  /\ CanStart(c)
  /\ \E p \in Phones :
       /\ ~UserLocked(p)
       /\ LET r == [Blank EXCEPT !.kind = "setup2FA", !.phone = p]
          IN calls' = [calls EXCEPT ![c] =
               IF p \notin Registered
               THEN Finish(r, FALSE, "User not found. Please create a wallet first.")
               ELSE IF users[p].two_factor_enabled
               THEN Finish(r, FALSE, "2FA is already enabled on your account.")
               ELSE [r EXCEPT !.pc = "updated", !.pending = TRUE]]
  /\ UNCHANGED <<testRun, tokenVars, directoryVars, verification_codes, transactions, notification_queue, users, ledgerVars, drainVars>>

\* setup2FA lines 207-243: BEGIN, SELECT ... FOR UPDATE, the pin_verified and
\* already-enabled checks, the UPDATE of two_factor_enabled on the client
setup2FA(c) ==
  /\ CanStart(c)
  /\ \E p \in Phones :
       /\ ~UserLocked(p)
       /\ LET r == [Blank EXCEPT !.kind = "setup2FA", !.phone = p]
          IN calls' = [calls EXCEPT ![c] =
               IF p \notin Registered
               THEN Finish(r, FALSE, "User not found. Please create a wallet first.")
               ELSE IF ~users[p].pin_verified
               THEN Finish(r, FALSE, "You must verify your PIN before enabling 2FA. Use VERIFY PIN <your-pin> to verify.")
               ELSE IF users[p].two_factor_enabled
               THEN Finish(r, FALSE, "2FA is already enabled on your account.")
               ELSE [r EXCEPT !.pc = "updated", !.pending = TRUE]]
  /\ UNCHANGED <<testRun, tokenVars, directoryVars, verification_codes, transactions, notification_queue, users, ledgerVars, drainVars>>

\* setup2FA lines 245-254: the security notification and the COMMIT
setup2FA_Finish(c) ==
  /\ calls[c].kind = "setup2FA" /\ calls[c].pc = "updated"
  /\ CommitLocked(c, [users EXCEPT ![calls[c].phone].two_factor_enabled = TRUE],
                  verification_codes,
                  "Two-factor authentication enabled. You will now receive verification codes for sensitive operations.")
  /\ UNCHANGED <<testRun, tokenVars, directoryVars, transactions, notification_queue, ledgerVars, drainVars>>

\* disable2FA lines 435-465: BEGIN, SELECT ... FOR UPDATE, the enabled check,
\* the UPDATE of two_factor_enabled and the DELETE of the user's codes
disable2FA(c) ==
  /\ CanStart(c)
  /\ \E p \in Phones :
       /\ ~UserLocked(p)
       /\ LET r == [Blank EXCEPT !.kind = "disable2FA", !.phone = p]
          IN calls' = [calls EXCEPT ![c] =
               IF p \notin Registered
               THEN Finish(r, FALSE, "User not found. Please create a wallet first.")
               ELSE IF ~users[p].two_factor_enabled
               THEN Finish(r, FALSE, "2FA is not enabled on your account.")
               ELSE [r EXCEPT !.pc = "updated", !.pending = TRUE]]
  /\ UNCHANGED <<testRun, tokenVars, directoryVars, verification_codes, transactions, notification_queue, users, ledgerVars, drainVars>>

\* disable2FA lines 467-476: the security notification and the COMMIT
disable2FA_Finish(c) ==
  /\ calls[c].kind = "disable2FA" /\ calls[c].pc = "updated"
  /\ CommitLocked(c, [users EXCEPT ![calls[c].phone].two_factor_enabled = FALSE],
                  DeleteUserCodes(verification_codes, calls[c].phone),
                  "Two-factor authentication has been disabled.")
  /\ UNCHANGED <<testRun, tokenVars, directoryVars, transactions, notification_queue, ledgerVars, drainVars>>

\* the failure with the UPDATE sent through the pool: it is committed on its
\* own and stays when the DELETE fails
disable2FA_Fails_Autocommit(c) ==
  /\ calls[c].kind = "disable2FA" /\ calls[c].pc = "updated"
  /\ users' = [users EXCEPT ![calls[c].phone].two_factor_enabled = FALSE]
  /\ calls' = [calls EXCEPT ![c] = Finish([@ EXCEPT !.fault = TRUE], FALSE, "error")]
  /\ UNCHANGED <<testRun, tokenVars, directoryVars, verification_codes, transactions, notification_queue, ledgerVars, drainVars>>

\* disable2FA lines 458-461 and 478-481 with db.ts lines 92-94: the DELETE
\* throws after the UPDATE, the catch rethrows and withTransaction issues
\* ROLLBACK, which discards the UPDATE
disable2FA_Fails(c) ==
  /\ calls[c].kind = "disable2FA" /\ calls[c].pc = "updated"
  /\ calls' = [calls EXCEPT ![c] = Finish([@ EXCEPT !.fault = TRUE], FALSE, "error")]
  /\ UNCHANGED <<testRun, tokenVars, directoryVars, verification_codes, transactions, notification_queue, users, ledgerVars, drainVars>>

\* sendVerificationCode lines 265-307: BEGIN, SELECT ... FOR UPDATE, the
\* two_factor_enabled check, the new code, the DELETE of the codes of the
\* user and operation and the INSERT of the new one, on the client
sendVerificationCode(c) ==
  /\ CanStart(c)
  /\ \E p \in Phones, operation \in Operations, verificationCode \in GeneratedCodes :
       /\ ~UserLocked(p)
       /\ LET r == [Blank EXCEPT !.kind = "sendVerificationCode", !.phone = p,
                                 !.operation = operation]
          IN calls' = [calls EXCEPT ![c] =
               IF p \notin Registered
               THEN Finish(r, FALSE, "User not found. Please create a wallet first.")
               ELSE IF ~users[p].two_factor_enabled
               THEN Finish(r, TRUE, "No verification required (2FA not enabled).")
               ELSE [r EXCEPT !.pc = "updated", !.pending = TRUE, !.input = verificationCode]]
  /\ UNCHANGED <<testRun, tokenVars, directoryVars, verification_codes, transactions, notification_queue, users, ledgerVars, drainVars>>

\* the INSERT alone, the earlier codes left in place
ReplaceCode_KeepOld(c) ==
  Append(verification_codes,
         CodeRow(c, calls[c].phone, calls[c].input, calls[c].operation))

\* the codes table after the DELETE and INSERT of sendVerificationCode and
\* resetPin
ReplaceCode(c) ==
  Append(DeleteCodes(verification_codes, calls[c].phone, calls[c].operation),
         CodeRow(c, calls[c].phone, calls[c].input, calls[c].operation))

\* sendVerificationCode lines 309-322: sendSms, the security notification
\* and the COMMIT
sendVerificationCode_Finish(c) ==
  /\ calls[c].kind = "sendVerificationCode" /\ calls[c].pc = "updated"
  /\ CommitLocked(c, users, ReplaceCode(c),
                  "Verification code sent. Please reply with CODE to proceed.")
  /\ UNCHANGED <<testRun, tokenVars, directoryVars, transactions, notification_queue, ledgerVars, drainVars>>

\* resetPin lines 489-518: BEGIN, SELECT ... FOR UPDATE, the new code, the
\* DELETE of the PIN_RESET codes of the user and the INSERT of the new one
resetPin(c) ==
  /\ CanStart(c)
  /\ \E p \in Phones, resetCode \in GeneratedCodes :
       /\ ~UserLocked(p)
       /\ LET r == [Blank EXCEPT !.kind = "resetPin", !.phone = p,
                                 !.operation = "PIN_RESET"]
          IN calls' = [calls EXCEPT ![c] =
               IF p \notin Registered
               THEN Finish(r, FALSE, "User not found. Please create a wallet first.")
               ELSE [r EXCEPT !.pc = "updated", !.pending = TRUE, !.input = resetCode]]
  /\ UNCHANGED <<testRun, tokenVars, directoryVars, verification_codes, transactions, notification_queue, users, ledgerVars, drainVars>>

\* resetPin lines 520-533: sendSms, the security notification and the COMMIT
resetPin_Finish(c) ==
  /\ calls[c].kind = "resetPin" /\ calls[c].pc = "updated"
  /\ CommitLocked(c, users, ReplaceCode(c),
                  "A verification code has been sent to your phone. Reply with CODE to confirm PIN reset.")
  /\ UNCHANGED <<testRun, tokenVars, directoryVars, transactions, notification_queue, ledgerVars, drainVars>>

\* the user has a PIN_RESET code that is neither used nor expired
HasResetCode(p) ==
  \E i \in DOMAIN verification_codes :
    /\ verification_codes[i].user = p
    /\ verification_codes[i].operation = "PIN_RESET"
    /\ ~verification_codes[i].is_used
    /\ verification_codes[i].expires_at >= now

\* completeResetPin lines 547-569: BEGIN, SELECT ... FOR UPDATE, the new PIN
\* and the UPDATE of pin and pin_verified; no code is read.  Kept in the
\* call: hadResetCode, whether the user had a usable PIN_RESET code then.
completeResetPin(c) ==
  /\ CanStart(c)
  /\ \E p \in Phones, newPin \in GeneratedPins :
       /\ ~UserLocked(p)
       /\ LET r == [Blank EXCEPT !.kind = "completeResetPin", !.phone = p]
          IN calls' = [calls EXCEPT ![c] =
               IF p \notin Registered
               THEN Finish(r, FALSE, "User not found. Please create a wallet first.")
               ELSE [r EXCEPT !.pc = "updated", !.pending = TRUE, !.input = newPin,
                              !.stored = users[p].pin,
                              !.verifiedBefore = users[p].pin_verified,
                              !.hadResetCode = HasResetCode(p)]]
  /\ UNCHANGED <<testRun, tokenVars, directoryVars, verification_codes, transactions, notification_queue, users, ledgerVars, drainVars>>

\* completeResetPin lines 571-581: the security notification and the COMMIT
completeResetPin_Finish(c) ==
  /\ calls[c].kind = "completeResetPin" /\ calls[c].pc = "updated"
  /\ CommitLocked(c, [users EXCEPT ![calls[c].phone].pin = calls[c].input,
                                   ![calls[c].phone].pin_verified = TRUE],
                  verification_codes, "Your PIN has been reset.")
  /\ UNCHANGED <<testRun, tokenVars, directoryVars, transactions, notification_queue, ledgerVars, drainVars>>

\* the positions of the codes of a user and operation, oldest first
CodesOf(u, operation) ==
  {i \in DOMAIN verification_codes :
     verification_codes[i].user = u /\ verification_codes[i].operation = operation}

\* code.padEnd(storedCode.length) against storedCode.padEnd(code.length)
codeMatches(code, storedCode) ==
  timingSafeEqual(padEnd(code, Len(storedCode)), padEnd(storedCode, Len(code)))

\* verifyCode without the expiry check
verifyCode_NoExpiry(c) ==
  /\ CanStart(c)
  /\ \E p \in Phones, code \in CodeInputs, operation \in Operations :
       LET r == [Blank EXCEPT !.kind = "verifyCode", !.phone = p, !.input = code,
                              !.operation = operation]
       IN calls' = [calls EXCEPT ![c] =
            IF p \notin Registered
            THEN Finish(r, FALSE, "User not found. Please create a wallet first.")
            ELSE IF CodesOf(p, operation) = {}
            THEN Finish(r, FALSE, "No verification code found. Please request a new code.")
            ELSE LET i == CHOOSE j \in CodesOf(p, operation) :
                            \A k \in CodesOf(p, operation) : k <= j
                     row == verification_codes[i]
                 IN IF row.is_used
                    THEN Finish(r, FALSE, "This code has already been used. Please request a new code.")
                    ELSE IF ~codeMatches(code, row.code)
                    THEN Finish(r, FALSE, "Invalid verification code. Please try again.")
                    ELSE [r EXCEPT !.pc = "checked", !.pending = TRUE, !.codeRead = row.id,
                                   !.stored = row.code]]
  /\ UNCHANGED <<testRun, tokenVars, directoryVars, verification_codes, transactions, notification_queue, users, ledgerVars, drainVars>>

\* verifyCode lines 336-404: BEGIN, the SELECT of the user (no lock), the
\* SELECT of the latest code of the user and operation, the used, expiry and
\* match checks
verifyCode(c) ==
  /\ CanStart(c)
  /\ \E p \in Phones, code \in CodeInputs, operation \in Operations :
       LET r == [Blank EXCEPT !.kind = "verifyCode", !.phone = p, !.input = code,
                              !.operation = operation]
       IN calls' = [calls EXCEPT ![c] =
            IF p \notin Registered
            THEN Finish(r, FALSE, "User not found. Please create a wallet first.")
            ELSE IF CodesOf(p, operation) = {}
            THEN Finish(r, FALSE, "No verification code found. Please request a new code.")
            ELSE LET i == CHOOSE j \in CodesOf(p, operation) :
                            \A k \in CodesOf(p, operation) : k <= j
                     row == verification_codes[i]
                 IN IF row.is_used
                    THEN Finish(r, FALSE, "This code has already been used. Please request a new code.")
                    ELSE IF row.expires_at < now
                    THEN Finish(r, FALSE, "This code has expired. Please request a new code.")
                    ELSE IF ~codeMatches(code, row.code)
                    THEN Finish(r, FALSE, "Invalid verification code. Please try again.")
                    ELSE [r EXCEPT !.pc = "checked", !.pending = TRUE, !.codeRead = row.id,
                                   !.stored = row.code]]
  /\ UNCHANGED <<testRun, tokenVars, directoryVars, verification_codes, transactions, notification_queue, users, ledgerVars, drainVars>>

\* verifyCode lines 406-421: the UPDATE of is_used by id, the security
\* notification through the pool (its INSERT waits while a transaction
\* holds the users row) and the COMMIT
verifyCode_Finish(c) ==
  /\ calls[c].kind = "verifyCode" /\ calls[c].pc = "checked"
  /\ LET p == calls[c].phone
     IN /\ ~preferenceIsFalse(users[p].prefs, toLowerCase("SECURITY"))
             => /\ ~UserLocked(p)
                /\ \A d \in Drains : p \notin LockedUsers(d)
                /\ Len(notification_queue) < MaxQueue
        /\ notification_queue' = queueNotification(notification_queue, p, "SECURITY", c)
  /\ verification_codes' =
       [i \in DOMAIN verification_codes |->
          IF verification_codes[i].id = calls[c].codeRead
          THEN [verification_codes[i] EXCEPT !.is_used = TRUE]
          ELSE verification_codes[i]]
  /\ calls' = [calls EXCEPT ![c] =
       Finish(@, TRUE, "Verification code accepted. You may proceed with the operation.")]
  /\ UNCHANGED <<testRun, tokenVars, directoryVars, transactions, users, ledgerVars, drainVars>>

----------------------------------------------------------------------------
(* NOTIFICATIONS ON/OFF <type>: parseCommand, handleNotificationsCommand and *)
(* notificationService.updateNotificationPreferences                         *)

\* parseCommand lines 107-120: the settings object of the command
notificationSettings(action, type) ==
  LET isEnabled == action = "ON"
  IN IF type = "all" THEN [k \in PreferenceKeys |-> isEnabled]
     ELSE IF type \in PreferenceKeys THEN [k \in {type} |-> isEnabled]
     ELSE [k \in {} |-> isEnabled]

\* { ...currentPreferences, ...preferences }
MergePreferences(currentPreferences, preferences) ==
  [k \in DOMAIN currentPreferences \cup DOMAIN preferences |->
     IF k \in DOMAIN preferences THEN preferences[k] ELSE currentPreferences[k]]

\* processCommand for NOTIFICATIONS up to the SELECT of
\* updateNotificationPreferences (lines 232-242), a read through the pool
handleNotificationsCommand(c) ==
  /\ CanStart(c)
  /\ \E p \in Phones, action \in {"ON", "OFF"}, type \in PreferenceKeys \cup {"all"} :
       LET r == [Blank EXCEPT !.kind = "notifications", !.phone = p,
                              !.settings = notificationSettings(action, type)]
       IN calls' = [calls EXCEPT ![c] =
            IF p \notin Registered
            THEN Finish(r, FALSE, "Failed to update notification preferences. Please try again.")
            ELSE [r EXCEPT !.pc = "read", !.pending = TRUE, !.prefsRead = users[p].prefs]]
  /\ UNCHANGED <<testRun, tokenVars, directoryVars, verification_codes, transactions, notification_queue, users, ledgerVars, drainVars>>

\* updateNotificationPreferences lines 244-256: the merge with the
\* preferences read before and the UPDATE through the pool, which waits for
\* a transaction that holds the users row; then the reply
updateNotificationPreferences_Update(c) ==
  /\ calls[c].kind = "notifications" /\ calls[c].pc = "read"
  /\ LET p == calls[c].phone
     IN /\ ~UserLocked(p)
        /\ \A d \in Drains : p \notin LockedUsers(d)
        /\ users' = [users EXCEPT
              ![p].prefs = MergePreferences(calls[c].prefsRead, calls[c].settings),
              ![p].wants = MergePreferences(@, calls[c].settings)]
  /\ calls' = [calls EXCEPT ![c] = Finish(@, TRUE, "Notification preferences updated")]
  /\ UNCHANGED <<testRun, tokenVars, directoryVars, verification_codes, transactions, notification_queue, ledgerVars, drainVars>>

----------------------------------------------------------------------------
(* commandParser.handleCreateCommand and walletService.createWallet *)

\* handleCreateCommand lines 256-264: the lookup of an existing wallet
\* through the pool; without one the command goes on to createWallet
handleCreateCommand(c) ==
  /\ CanStart(c)
  /\ \E p \in Phones :
       LET r == [Blank EXCEPT !.kind = "createWallet", !.phone = p, !.cmd = "CREATE"]
       IN calls' = [calls EXCEPT ![c] =
            IF getWalletByPhoneNumber(p) # "none"
            THEN Finish([r EXCEPT !.wallet = getWalletByPhoneNumber(p)], TRUE,
                        "You already have a wallet with address")
            ELSE [r EXCEPT !.pc = "begin"]]
  /\ UNCHANGED <<testRun, tokenVars, directoryVars, verification_codes, transactions, notification_queue, users, ledgerVars, drainVars>>

\* a direct call of walletService.createWallet (src/src/test.ts)
createWallet(c) ==
  /\ CanStart(c)
  /\ \E p \in Phones :
       calls' = [calls EXCEPT ![c] =
         [Blank EXCEPT !.kind = "createWallet", !.phone = p, !.pc = "begin"]]
  /\ UNCHANGED <<testRun, tokenVars, directoryVars, verification_codes, transactions, notification_queue, users, ledgerVars, drainVars>>

\* createWallet lines 12-23: BEGIN and the SELECT of the users row
createWallet_Select(c) ==
  /\ calls[c].kind = "createWallet" /\ calls[c].pc = "begin"
  /\ calls' = [calls EXCEPT ![c] =
       [@ EXCEPT !.pc = "selected", !.pending = TRUE,
                 !.userFound = calls[c].phone \in Registered]]
  /\ UNCHANGED <<testRun, tokenVars, directoryVars, verification_codes, transactions, notification_queue, users, ledgerVars, drainVars>>

\* the users row INSERT INTO users (phone_number) creates, at its defaults
NewUser(p) ==
  [q \in Registered \cup {p} |->
     IF q = p THEN UserRow(NoPin, FALSE, DefaultPrefs) ELSE users[q]]

\* createWallet lines 25-52: the INSERT of the users row when none was
\* found, the new keypair, the INSERT of the wallets row and the COMMIT.  A
\* users row committed by another call since the SELECT makes the INSERT
\* fail on the unique phone_number: ROLLBACK, and the error is thrown.
createWallet_Commit(c) ==
  /\ calls[c].kind = "createWallet" /\ calls[c].pc = "selected"
  /\ LET p == calls[c].phone
     IN IF ~calls[c].userFound /\ p \in Registered
        THEN /\ calls' = [calls EXCEPT ![c] =
                  Finish(@, FALSE, "Failed to create wallet. Please try again later.")]
             /\ UNCHANGED <<testRun, tokenVars, users, wallets>>
        ELSE \E publicKey \in NewKeys :
               /\ \A i \in DOMAIN wallets : wallets[i].public_key # publicKey
               /\ users' = IF calls[c].userFound THEN users ELSE NewUser(p)
               /\ wallets' = Append(wallets, WalletRow(p, publicKey))
               /\ calls' = [calls EXCEPT ![c] =
                    Finish([@ EXCEPT !.wallet = publicKey], TRUE, "Wallet created successfully.")]
  /\ UNCHANGED <<testRun, tokenVars, contacts, verification_codes, transactions, notification_queue, ledgerVars, drainVars>>

----------------------------------------------------------------------------
(* contactService.addContact *)

\* the addContact calls that have begun and not returned
InFlightContacts == {d \in Calls : calls[d].kind = "addContact" /\ calls[d].pc # "done"}

\* addContact lines 16-36: the validation of the address, the normalized
\* alias and the SELECT of the users row through the pool
addContact(c) ==
  /\ CanStart(c)
  /\ \E p \in Phones, alias \in AliasTexts, walletAddress \in {"a1", "a2", "bad"} :
       LET r == [Blank EXCEPT !.kind = "addContact", !.phone = p,
                              !.alias = normalizeAlias(alias), !.wallet = walletAddress,
                              !.during = InFlightContacts]
       IN calls' = [calls EXCEPT ![c] =
            IF ~IsValidAddress(walletAddress)
            THEN Finish(r, FALSE, "Invalid wallet address format")
            ELSE IF p \notin Registered
            THEN Finish(r, FALSE, "User not found. Please create a wallet first.")
            ELSE [r EXCEPT !.pc = "user"]]
  /\ UNCHANGED <<testRun, tokenVars, directoryVars, verification_codes, transactions, notification_queue, users, ledgerVars, drainVars>>

\* addContact lines 40-43: the SELECT of the contacts row of the alias
addContact_Select(c) ==
  /\ calls[c].kind = "addContact" /\ calls[c].pc = "user"
  /\ calls' = [calls EXCEPT ![c] =
       [@ EXCEPT !.pc = "selected",
                 !.contactFound = ContactsOf(calls[c].phone, calls[c].alias) # {}]]
  /\ UNCHANGED <<testRun, tokenVars, directoryVars, verification_codes, transactions, notification_queue, users, ledgerVars, drainVars>>

\* addContact with an INSERT where the code has its UPDATE
addContact_Write_InsertOnly(c) ==
  /\ calls[c].kind = "addContact" /\ calls[c].pc = "selected"
  /\ LET r == calls[c]
     IN IF ~FitsAliasColumn(r.alias)
        THEN /\ calls' = [calls EXCEPT ![c] =
                  Finish(@, FALSE, "Failed to add contact. Please try again.")]
             /\ UNCHANGED contacts
        ELSE /\ contacts' = contacts \cup {ContactRow(r.phone, r.alias, r.wallet)}
             /\ calls' = [calls EXCEPT ![c] = Finish(@, TRUE, "Added to your contacts")]
  /\ UNCHANGED <<testRun, tokenVars, wallets, verification_codes, transactions, notification_queue, users, ledgerVars, drainVars>>

\* addContact lines 45-58: the UPDATE of the row found, or the INSERT of a
\* new row, through the pool.  The INSERT fails on an alias longer than the
\* column and on a row another call inserted since the SELECT (UNIQUE
\* (user_id, alias)); the error is caught at lines 60-63.
addContact_Write(c) ==
  /\ calls[c].kind = "addContact" /\ calls[c].pc = "selected"
  /\ LET r == calls[c]
     IN IF r.contactFound
        THEN /\ contacts' = {IF row \in ContactsOf(r.phone, r.alias)
                             THEN [row EXCEPT !.wallet_address = r.wallet]
                             ELSE row : row \in contacts}
             /\ calls' = [calls EXCEPT ![c] =
                  Finish(@, TRUE, "Updated contact with new address")]
        ELSE IF ~FitsAliasColumn(r.alias) \/ ContactsOf(r.phone, r.alias) # {}
        THEN /\ calls' = [calls EXCEPT ![c] =
                  Finish(@, FALSE, "Failed to add contact. Please try again.")]
             /\ UNCHANGED contacts
        ELSE /\ contacts' = contacts \cup {ContactRow(r.phone, r.alias, r.wallet)}
             /\ calls' = [calls EXCEPT ![c] = Finish(@, TRUE, "Added to your contacts")]
  /\ UNCHANGED <<testRun, tokenVars, wallets, verification_codes, transactions, notification_queue, users, ledgerVars, drainVars>>

----------------------------------------------------------------------------
(* tokenService: the token cache and the lookups that go through it *)

Mints == {"mUSDC", "mXYZ"}            \* mint addresses the lookups ask for
AddedMints == {"mUSDC", "bad"}        \* addSupportedToken: the mint of the seed
                                      \* row, and a text that is no address
SymbolTexts == {"USDC", "xyz"}        \* symbols as the callers write them
DecimalsValues == {6, 9}
Lookups == 1..MaxLookups

\* the keys of tokenCache: TOKEN_LIST_CACHE_KEY, token_symbol_<SYMBOL> and
\* token_mint_<mint address>
ListKey == [space |-> "supported_tokens", id |-> "none"]
SymbolKey(symbol) == [space |-> "token_symbol", id |-> symbol]
MintKey(mintAddress) == [space |-> "token_mint", id |-> mintAddress]

\* new NodeCache(...): no entries
EmptyCache == [k \in {} |-> {}]

\* tokenCache.set(key, value)
CacheSet(cache, key, value) ==
  [k \in DOMAIN cache \cup {key} |-> IF k = key THEN value ELSE cache[k]]

\* tokenCache.del(key)
CacheDel(cache, key) == [k \in DOMAIN cache \ {key} |-> cache[k]]

\* a lookup before it is called.  known: for every mint, the version of the
\* newest update whose addSupportedToken had returned true when the lookup
\* was called; hit: the value came from the cache
NoLookup ==
  [op |-> "none", pc |-> "idle", key |-> ListKey, rows |-> {}, hit |-> FALSE,
   known |-> [m \in Mints |-> 0]]

NoLookups == [l \in Lookups |-> NoLookup]

\* lookup slots are taken in order
CanLookup(l) ==
  /\ lookups[l].pc = "idle"
  /\ \A k \in Lookups : k < l => lookups[k].pc # "idle"

\* the version the next write to supported_tokens gets
NextVersion ==
  1 + (CHOOSE v \in {row.version : row \in supported_tokens} \cup {0} :
         \A row \in supported_tokens : row.version <= v)

\* the version of the newest update of a mint whose addSupportedToken has
\* returned true
ReturnedVersion(m) ==
  LET returned == {calls[a].row.version : a \in
                     {d \in Calls : /\ calls[d].kind = "addSupportedToken"
                                    /\ calls[d].pc = "done" /\ calls[d].ok
                                    /\ calls[d].row.mint_address = m}} \cup {0}
  IN CHOOSE v \in returned : \A w \in returned : w <= v

\* INSERT ... ON CONFLICT (mint_address) DO UPDATE: the table after the upsert
Upserted(row) ==
  {t \in supported_tokens : t.mint_address # row.mint_address} \cup {row}

\* addSupportedToken lines 163-165: the three keys of the call's own
\* arguments are deleted
Invalidated(cache, mintAddress, symbol) ==
  CacheDel(CacheDel(CacheDel(cache, ListKey), SymbolKey(toUpperCase(symbol))),
           MintKey(mintAddress))

\* a lookup that starts: the cached value if the key is there, else the rows
\* the SELECT returns (fetched), which are cached only once the query has
\* returned; a null result (cacheEmpty = FALSE) is returned uncached
LookupStarted(op, key, fetched, cacheEmpty) ==
  LET r == [NoLookup EXCEPT !.op = op, !.key = key,
                            !.known = [m \in Mints |-> ReturnedVersion(m)]]
  IN IF key \in DOMAIN tokenCache
     THEN [r EXCEPT !.pc = "done", !.rows = tokenCache[key], !.hit = TRUE]
     ELSE IF fetched = {} /\ ~cacheEmpty
     THEN [r EXCEPT !.pc = "done"]
     ELSE [r EXCEPT !.pc = "fetched", !.rows = fetched]

\* getTokenBySymbol lines 52-71: the cache read and, on a miss, the SELECT by
\* symbol; result.rows[0] is any of the rows of that symbol
getTokenBySymbol_Get(l) ==
  /\ CanLookup(l)
  /\ \E symbol \in SymbolTexts :
       LET normalizedSymbol == toUpperCase(symbol)
           result == {t \in supported_tokens :
                        t.symbol = normalizedSymbol /\ t.is_active}
       IN \E first \in IF result = {} THEN {{}} ELSE {{t} : t \in result} :
            lookups' = [lookups EXCEPT ![l] =
              LookupStarted("getTokenBySymbol", SymbolKey(normalizedSymbol), first, FALSE)]
  /\ UNCHANGED <<testRun, supported_tokens, token_prices, tokenCache, directoryVars, verification_codes, calls, transactions, notification_queue, users, ledgerVars, drainVars>>

\* getSupportedTokens lines 25-36: the cache read and, on a miss, the SELECT
\* of the active rows
getSupportedTokens_Get(l) ==
  /\ CanLookup(l)
  /\ lookups' = [lookups EXCEPT ![l] =
       LookupStarted("getSupportedTokens", ListKey,
                     {t \in supported_tokens : t.is_active}, TRUE)]
  /\ UNCHANGED <<testRun, supported_tokens, token_prices, tokenCache, directoryVars, verification_codes, calls, transactions, notification_queue, users, ledgerVars, drainVars>>

\* the token info getTokenBalance assumes for a mint without a row
DefaultTokenInfo(mintAddress) == TokenRow(mintAddress, "none", 6, 0, 0)

\* getTokenBalance lines 102-116, for a token account that exists: the cache
\* read and, on a miss, the SELECT of the decimals by mint address
getTokenBalance_Get(l) ==
  /\ CanLookup(l)
  /\ \E mintAddress \in Mints :
       LET result == {t \in supported_tokens : t.mint_address = mintAddress}
       IN lookups' = [lookups EXCEPT ![l] =
            LookupStarted("getTokenBalance", MintKey(mintAddress),
                          IF result = {} THEN {DefaultTokenInfo(mintAddress)} ELSE result,
                          TRUE)]
  /\ UNCHANGED <<testRun, supported_tokens, token_prices, tokenCache, directoryVars, verification_codes, calls, transactions, notification_queue, users, ledgerVars, drainVars>>

\* lines 39, 74 and 117: the query has returned; tokenCache.set with what it
\* read, and the lookup returns that value
Lookup_Set(l) ==
  /\ lookups[l].pc = "fetched"
  /\ tokenCache' = CacheSet(tokenCache, lookups[l].key, lookups[l].rows)
  /\ lookups' = [lookups EXCEPT ![l] = [@ EXCEPT !.pc = "done"]]
  /\ UNCHANGED <<testRun, supported_tokens, token_prices, directoryVars, verification_codes, calls, transactions, notification_queue, users, ledgerVars, drainVars>>

\* stdTTL 300: an entry is dropped once its five minutes have passed
tokenCache_Expire ==
  /\ \E key \in DOMAIN tokenCache : tokenCache' = CacheDel(tokenCache, key)
  /\ UNCHANGED <<testRun, supported_tokens, token_prices, lookups, directoryVars, verification_codes, calls, transactions, notification_queue, users, ledgerVars, drainVars>>

\* addSupportedToken lines 142-160: the mint address is validated and the
\* row is upserted on mint_address; a query that throws returns false.
\* during notes the lookups that have read the table and not yet cached
addSupportedToken(c) ==
  /\ CanStart(c)
  /\ \E mintAddress \in AddedMints, symbol \in SymbolTexts,
        decimals \in DecimalsValues, dbError \in BOOLEAN :
       IF mintAddress = "bad" \/ dbError
       THEN /\ calls' = [calls EXCEPT ![c] =
                 [Reject("addSupportedToken", FALSE, "false") EXCEPT !.fault = dbError]]
            /\ UNCHANGED supported_tokens
       ELSE LET row == TokenRow(mintAddress, toUpperCase(symbol), decimals, c, NextVersion)
            IN /\ supported_tokens' = Upserted(row)
               /\ calls' = [calls EXCEPT ![c] =
                    [Blank EXCEPT !.kind = "addSupportedToken", !.pc = "upserted",
                                  !.row = row,
                                  !.during = {l \in Lookups : lookups[l].pc = "fetched"}]]
  /\ UNCHANGED <<testRun, token_prices, tokenCache, lookups, directoryVars, verification_codes, transactions, notification_queue, users, ledgerVars, drainVars>>

\* addSupportedToken lines 162-167: the query has returned; the cache keys
\* of the arguments are deleted and the call returns true
addSupportedToken_Invalidate(c) ==
  /\ calls[c].kind = "addSupportedToken" /\ calls[c].pc = "upserted"
  /\ tokenCache' = Invalidated(tokenCache, calls[c].row.mint_address, calls[c].row.symbol)
  /\ calls' = [calls EXCEPT ![c] = Finish(@, TRUE, "true")]
  /\ UNCHANGED <<testRun, supported_tokens, token_prices, lookups, directoryVars, verification_codes, transactions, notification_queue, users, ledgerVars, drainVars>>

----------------------------------------------------------------------------
(* webhookRoutes: verifyHmacSignature and the routes behind it *)

Routes == {"/transaction", "/add-token", "/update-prices"}

\* the request bodies sent to a route
Bodies(route) ==
  CASE route = "/transaction" ->
         {BodyText(f, k, to, sig, "none", "none") :
            f \in {"compact", "spaced"}, k \in {"none", WebhookApiKey, "wrong"},
            to \in {"a1", "bad"}, sig \in 1..MaxSig}
    [] route = "/add-token" ->
         {BodyText(f, k, "none", 0, mint, "XYZ") :
            f \in {"compact", "spaced"}, k \in {"none", WebhookApiKey, "wrong"},
            mint \in {"mXYZ", "bad"}}
    [] OTHER ->
         {BodyText(f, k, "none", 0, "none", "none") :
            f \in {"compact", "spaced"}, k \in {"none", WebhookApiKey, "wrong"}}

\* the x-webhook-signature headers sent with a body: none, the digest of the
\* text sent, the digest of the members as JSON.stringify writes them, the
\* digest under another secret, the digest of another body, and a short text
Signatures(text) ==
  {NoSignature, ShortSignature,
   Hmac(WebhookSecret, text),
   Hmac(WebhookSecret, stringify(parseJson(text))),
   Hmac("guessed", stringify(parseJson(text))),
   Hmac(WebhookSecret, NoBody)}

\* verifyHmacSignature without the comparison of the API key
verifyHmacSignature_AnyApiKey(signature, text) ==
  IF signature = NoSignature
  THEN [status |-> 0, error |-> "none"]
  ELSE LET expectedSignature == Hmac(WebhookSecret, stringify(parseJson(text)))
       IN IF signature.length # expectedSignature.length
          THEN [status |-> 401, error |-> "Signature verification failed"]
          ELSE IF signature = expectedSignature
          THEN [status |-> 0, error |-> "none"]
          ELSE [status |-> 401, error |-> "Invalid signature"]

\* verifyHmacSignature lines 33-71: status 0 stands for next().
\* timingSafeEqual throws on buffers of different lengths.
verifyHmacSignature(signature, text) ==
  IF signature = NoSignature
  THEN IF parseJson(text).apiKey # WebhookApiKey
       THEN [status |-> 401, error |-> "Unauthorized"]
       ELSE [status |-> 0, error |-> "none"]
  ELSE LET expectedSignature == Hmac(WebhookSecret, stringify(parseJson(text)))
       IN IF signature.length # expectedSignature.length
          THEN [status |-> 401, error |-> "Signature verification failed"]
          ELSE IF signature = expectedSignature
          THEN [status |-> 0, error |-> "none"]
          ELSE [status |-> 401, error |-> "Invalid signature"]

\* router.post lines 239-241: a POST to one of the routes runs
\* verifyHmacSignature and, after next(), the handler of the route up to its
\* first await; handleTransaction lines 97-111 end with the idempotency check
router_post(c) ==
  /\ CanStart(c)
  /\ \E route \in Routes :
       \E text \in Bodies(route) :
         \E signature \in Signatures(text) :
           LET r == [Blank EXCEPT !.kind = "webhook", !.route = route,
                                  !.signature = signature, !.body = text]
               verdict == verifyHmacSignature(signature, text)
               body == parseJson(text)
           IN calls' = [calls EXCEPT ![c] =
                IF verdict.status = 401
                THEN Finish([r EXCEPT !.status = 401], FALSE, verdict.error)
                ELSE IF route = "/add-token" THEN [r EXCEPT !.pc = "addToken"]
                ELSE IF route = "/update-prices" THEN [r EXCEPT !.pc = "updatePrices"]
                ELSE IF existingTx(body.sig)
                THEN Finish([r EXCEPT !.status = 200, !.sig = body.sig], TRUE,
                            "Transaction already processed")
                ELSE [r EXCEPT !.pc = "recording", !.recipient = body.to,
                               !.sender = "x", !.amount = 1, !.token = "SOL",
                               !.sig = body.sig]]
  /\ UNCHANGED <<testRun, tokenVars, directoryVars, verification_codes, transactions, notification_queue, users, ledgerVars, drainVars>>

\* handleAddToken lines 151-173 with tokenService.addSupportedToken: the
\* mint address is validated and the row is upserted on mint_address
handleAddToken(c) ==
  /\ calls[c].kind = "webhook" /\ calls[c].pc = "addToken"
  /\ LET body == parseJson(calls[c].body)
     IN IF body.mint = "bad"
        THEN /\ calls' = [calls EXCEPT ![c] =
                  Finish([@ EXCEPT !.status = 400], FALSE, "Failed to add token")]
             /\ UNCHANGED <<supported_tokens, tokenCache>>
        ELSE /\ supported_tokens' =
                  Upserted(TokenRow(body.mint, toUpperCase(body.symbol), 6, c, NextVersion))
             /\ tokenCache' = Invalidated(tokenCache, body.mint, body.symbol)
             /\ calls' = [calls EXCEPT ![c] =
                  Finish([@ EXCEPT !.status = 200], TRUE, "Added token to supported tokens")]
  /\ UNCHANGED <<testRun, token_prices, lookups, directoryVars, verification_codes, transactions, notification_queue, users, ledgerVars, drainVars>>

\* handleUpdatePrices lines 216-230 with tokenService.updateAllTokenPrices: a
\* price row is upserted for every token of getSupportedTokens, which goes
\* through the cache, whose price the external API returns (fetched: the
\* call to the API succeeds)
handleUpdatePrices(c) ==
  /\ calls[c].kind = "webhook" /\ calls[c].pc = "updatePrices"
  /\ \E fetched \in BOOLEAN :
       LET tokens == IF ListKey \in DOMAIN tokenCache THEN tokenCache[ListKey]
                     ELSE {t \in supported_tokens : t.is_active}
           priced == {row.mint_address : row \in {t \in tokens :
                                                    fetched /\ t.mint_address = "mUSDC"}}
       IN /\ token_prices' =
               {row \in token_prices : row.mint_address \notin priced}
                 \cup {[mint_address |-> m, source |-> "coingecko", by |-> c] : m \in priced}
          /\ tokenCache' = CacheSet(tokenCache, ListKey, tokens)
  /\ calls' = [calls EXCEPT ![c] = Finish([@ EXCEPT !.status = 200], TRUE, "Updated prices")]
  /\ UNCHANGED <<testRun, supported_tokens, lookups, directoryVars, verification_codes, transactions, notification_queue, users, ledgerVars, drainVars>>

----------------------------------------------------------------------------
(* blockchainMonitor: the Blockchain Event Watcher *)

\* getWalletsToMonitor at start(): the active wallets of that moment
MonitoredWallets == KnownWallets

\* checkWalletTransactions lines 99-125 for one signature of a monitored
\* wallet, processTransaction and sendTransactionWebhook: a transfer the
\* ledger lists for the wallet and hasProcessedTransaction does not find is
\* posted, signed, to /webhook/transaction, where verifyHmacSignature and
\* the idempotency check of handleTransaction pass it on
checkWalletTransactions(c) ==
  /\ CanStart(c)
  /\ \E walletAddress \in MonitoredWallets, e \in landed :
       /\ e.from = walletAddress \/ e.to = walletAddress
       /\ ~existingTx(e.sig)
       /\ LET data == BodyText("compact", "none", e.to, e.sig, "none", "none")
              hmacSignature == Hmac(WebhookSecret, stringify(parseJson(data)))
          IN /\ verifyHmacSignature(hmacSignature, data).status = 0
             /\ calls' = [calls EXCEPT ![c] =
                  [Incoming("webhook", e) EXCEPT !.route = "/transaction",
                                                 !.signature = hmacSignature,
                                                 !.body = data]]
  /\ UNCHANGED <<testRun, tokenVars, directoryVars, verification_codes, transactions, notification_queue, users, ledgerVars, drainVars>>

\* sendTransactionWebhook lines 309-316: the response to the POST arrives
\* and the loop goes on, to the next signature or the next poll
sendTransactionWebhook_Response(c) ==
  /\ calls[c].kind = "webhook" /\ calls[c].pc = "done"
  /\ calls' = [calls EXCEPT ![c] = Blank]
  /\ UNCHANGED <<testRun, tokenVars, directoryVars, verification_codes, transactions, notification_queue, users, ledgerVars, drainVars>>

----------------------------------------------------------------------------
(* testPINSetup: the commands a new phone number sends one after another *)

TestPhone == "p0"     \* TEST_PHONE, a number without a users row
TestCall == 1         \* the invocation of processCommand testPINSetup awaits

\* CREATE, the first command
testPINSetup_Create ==
  /\ testRun.step = 0
  /\ handleCreateCommand(TestCall)
  /\ calls'[TestCall].phone = TestPhone

\* BALANCE, before SETUP PIN and after VERIFY PIN
testPINSetup_Balance ==
  /\ testRun.step \in {1, 4}
  /\ CanStart(TestCall)
  /\ processCommand_Gate(TestCall, TestPhone, "BALANCE", FALSE, 0, "SOL", "a2")
  /\ UNCHANGED <<testRun, tokenVars, directoryVars, verification_codes, transactions, notification_queue, users, ledgerVars, drainVars>>

\* SETUP PIN: handleSetupPinCommand calls setupPin
testPINSetup_SetupPin ==
  /\ testRun.step = 2
  /\ setupPin(TestCall)
  /\ calls'[TestCall].phone = TestPhone

\* VERIFY PIN with the PIN extracted from the response to SETUP PIN
testPINSetup_VerifyPin ==
  /\ testRun.step = 3
  /\ verifyPin(TestCall)
  /\ calls'[TestCall].phone = TestPhone
  /\ calls'[TestCall].input = testRun.pin

\* the awaited processCommand returns: the response is logged, the PIN is
\* extracted from the response to SETUP PIN, and without a PIN in that
\* response testPINSetup returns false (step 6)
testPINSetup_Response ==
  /\ testRun.step < 5
  /\ calls[TestCall].pc = "done"
  /\ LET r == calls[TestCall]
         pin == IF r.kind = "setupPin" /\ r.ok THEN r.input ELSE testRun.pin
     IN testRun' = [step |-> IF testRun.step = 2 /\ pin = NoPin THEN 6 ELSE testRun.step + 1,
                    pin |-> pin,
                    responses |-> Append(testRun.responses, r.msg)]
  /\ calls' = [calls EXCEPT ![TestCall] = Blank]
  /\ UNCHANGED <<tokenVars, directoryVars, verification_codes, transactions, notification_queue, users, ledgerVars, drainVars>>

----------------------------------------------------------------------------
(* Specifications *)

InitLedger ==
  /\ bal = [a \in {"a1", "a2", "x"} |->
             IF a = "a1" THEN [SOL |-> 3, USDC |-> 2]
             ELSE IF a = "x" THEN [SOL |-> 2, USDC |-> 0]
             ELSE [SOL |-> 0, USDC |-> 0]]
  /\ landed = {}
  /\ nextSig = 1

InitTables ==
  /\ calls = [c \in Calls |-> Blank]
  /\ transactions = {}
  /\ notification_queue = <<>>
  /\ drains = [d \in Drains |-> IdleDrain]
  /\ now = 0
  /\ verification_codes = <<>>
  /\ wallets = <<WalletRow("u1", "a1"), WalletRow("u2", "a2")>>
  /\ contacts = {}

\* users with a verified PIN; the transaction preference is either way
Init ==
  /\ InitTables
  /\ InitLedger
  /\ testRun = NoRun
  /\ supported_tokens = InitialTokens
  /\ token_prices = {}
  /\ tokenCache = EmptyCache
  /\ lookups = NoLookups
  /\ \E t1, t2 \in BOOLEAN :
       users = [u \in InitialUsers |->
                  UserRow(<<"1", "2">>, TRUE,
                          [DefaultPrefs EXCEPT !.transactions = IF u = "u1" THEN t1 ELSE t2])]

Next ==
  \/ Ledger_ExternalTransfer
  \/ \E c \in Calls :
       \/ sendTokens_Validate(c)
       \/ sendTokens_Precheck(c)
       \/ sendTokens_Submit(c)
       \/ sendTokens_SubmitRejected(c)
       \/ sendTokens_SubmitTimeout(c)
       \/ sendTokens_Insert(c)
       \/ sendTokens_InsertFails(c)
       \/ sendTokens_Notify(c)
       \/ sendTokens_Commit(c)
       \/ sendTokens_CommitFails(c)
       \/ handleTransaction(c)
       \/ recordIncomingTransaction(c)
       \/ recordIncomingTransaction_Insert(c)
       \/ recordIncomingTransaction_Fails(c)
       \/ recordIncomingTransaction_Notify(c)
       \/ recordIncomingTransaction_Commit(c)

Spec == Init /\ [][Next]_vars

\* the PIN states a users row goes through: no PIN, a PIN awaiting
\* verification, a verified PIN; u2 has a verified PIN
PinStates == {<<NoPin, FALSE>>, <<(<<"1", "2">>), FALSE>>, <<(<<"1", "2">>), TRUE>>}

InitAuth ==
  /\ InitTables
  /\ InitLedger
  /\ testRun = NoRun
  /\ supported_tokens = InitialTokens
  /\ token_prices = {}
  /\ tokenCache = EmptyCache
  /\ lookups = NoLookups
  /\ \E st \in PinStates, sec \in BOOLEAN :
       users = [u \in InitialUsers |->
                  IF u = "u1"
                  THEN UserRow(st[1], st[2], [DefaultPrefs EXCEPT !.security = sec])
                  ELSE UserRow(<<"2", "1">>, TRUE, DefaultPrefs)]

NextAuth ==
  \E c \in Calls :
    \/ processCommand(c)
    \/ handleBalanceCommand(c)
    \/ handleHistoryCommand(c)
    \/ handleSendCommand(c)
    \/ sendTokens_Precheck(c)
    \/ sendTokens_Submit(c)
    \/ sendTokens_SubmitRejected(c)
    \/ sendTokens_SubmitTimeout(c)
    \/ sendTokens_Insert(c)
    \/ sendTokens_InsertFails(c)
    \/ sendTokens_Notify(c)
    \/ sendTokens_Commit(c)
    \/ sendTokens_CommitFails(c)
    \/ verifyPin(c)
    \/ verifyPin_Finish(c)
    \/ setupPin(c)
    \/ setupPin_Finish(c)

SpecAuth == InitAuth /\ [][NextAuth]_vars

InitDrain ==
  /\ InitTables
  /\ InitLedger
  /\ testRun = NoRun
  /\ supported_tokens = InitialTokens
  /\ token_prices = {}
  /\ tokenCache = EmptyCache
  /\ lookups = NoLookups
  /\ users = [u \in InitialUsers |-> UserRow(<<"1", "2">>, TRUE, DefaultPrefs)]

NextDrain ==
  \/ Enqueue({"TRANSACTION"})
  \/ Tick
  \/ \E d \in Drains :
       \/ processNotificationQueue_Select(d)
       \/ processNotificationQueue_Sent(d)
       \/ processNotificationQueue_NotSent(d)
       \/ processNotificationQueue_UpdateFails(d)
       \/ processNotificationQueue_Commit(d)
       \/ processNotificationQueue_CommitFails(d)

SpecDrain == InitDrain /\ [][NextDrain]_vars

\* the authorization operations: u1 in each state of PIN and second factor
\* the operations can lead to, with security notifications on or off; u2
\* with a PIN not yet verified and security notifications off
AuthStates ==
  {<<NoPin, FALSE, FALSE>>, <<(<<"1", "2">>), FALSE, FALSE>>,
   <<(<<"1", "2">>), TRUE, FALSE>>, <<(<<"1", "2">>), TRUE, TRUE>>}

InitSecurity ==
  /\ InitTables
  /\ InitLedger
  /\ testRun = NoRun
  /\ supported_tokens = InitialTokens
  /\ token_prices = {}
  /\ tokenCache = EmptyCache
  /\ lookups = NoLookups
  /\ \E st \in AuthStates, sec \in BOOLEAN :
       users = [u \in InitialUsers |->
                  IF u = "u1"
                  THEN [UserRow(st[1], st[2], [DefaultPrefs EXCEPT !.security = sec])
                          EXCEPT !.two_factor_enabled = st[3]]
                  ELSE UserRow(<<"2", "1">>, FALSE, [DefaultPrefs EXCEPT !.security = FALSE])]

NextSecurity ==
  \E c \in Calls :
    \/ setupPin(c)
    \/ setupPin_Finish(c)
    \/ verifyPin(c)
    \/ verifyPin_Finish(c)
    \/ setup2FA(c)
    \/ setup2FA_Finish(c)
    \/ disable2FA(c)
    \/ disable2FA_Finish(c)
    \/ disable2FA_Fails(c)
    \/ sendVerificationCode(c)
    \/ sendVerificationCode_Finish(c)
    \/ verifyCode(c)
    \/ verifyCode_Finish(c)
    \/ resetPin(c)
    \/ resetPin_Finish(c)
    \/ completeResetPin(c)
    \/ completeResetPin_Finish(c)

SpecSecurity == InitSecurity /\ [][NextSecurity]_vars

\* the authorization operations, each awaited statement running once it can
FairSecurity ==
  \A c \in Calls :
    /\ WF_vars(setupPin_Finish(c))
    /\ WF_vars(verifyPin_Finish(c))
    /\ WF_vars(setup2FA_Finish(c))
    /\ WF_vars(disable2FA_Finish(c))
    /\ WF_vars(sendVerificationCode_Finish(c))
    /\ WF_vars(verifyCode_Finish(c))
    /\ WF_vars(resetPin_Finish(c))
    /\ WF_vars(completeResetPin_Finish(c))

SpecSecurityLive == InitSecurity /\ [][NextSecurity]_vars /\ FairSecurity

\* setupPin calls alone, each awaited statement running once it can
NextSetupPin ==
  \E c \in Calls :
    \/ setupPin(c)
    \/ setupPin_Finish(c)

FairSetupPin == \A c \in Calls : WF_vars(setupPin_Finish(c))

SpecSetupPinLive == InitAuth /\ [][NextSetupPin]_vars /\ FairSetupPin

\* verifyPin calls alone, each awaited statement running once it can
NextVerifyPin ==
  \E c \in Calls :
    \/ verifyPin(c)
    \/ verifyPin_Finish(c)

FairVerifyPin == \A c \in Calls : WF_vars(verifyPin_Finish(c))

SpecVerifyPinLive == InitAuth /\ [][NextVerifyPin]_vars /\ FairVerifyPin

\* the gated commands next to the one-time codes: u1 has a verified PIN and
\* the second factor enabled, u2 a verified PIN only
InitSend2FA ==
  /\ InitTables
  /\ InitLedger
  /\ testRun = NoRun
  /\ supported_tokens = InitialTokens
  /\ token_prices = {}
  /\ tokenCache = EmptyCache
  /\ lookups = NoLookups
  /\ \E sec \in BOOLEAN :
       users = [u \in InitialUsers |->
                  IF u = "u1"
                  THEN [UserRow(<<"1", "2">>, TRUE, [DefaultPrefs EXCEPT !.security = sec])
                          EXCEPT !.two_factor_enabled = TRUE]
                  ELSE UserRow(<<"2", "1">>, TRUE, DefaultPrefs)]

NextSend2FA ==
  \E c \in Calls :
    \/ processCommand(c)
    \/ handleBalanceCommand(c)
    \/ handleHistoryCommand(c)
    \/ handleSendCommand(c)
    \/ sendTokens_Precheck(c)
    \/ sendTokens_Submit(c)
    \/ sendTokens_SubmitRejected(c)
    \/ sendTokens_SubmitTimeout(c)
    \/ sendTokens_Insert(c)
    \/ sendTokens_InsertFails(c)
    \/ sendTokens_Notify(c)
    \/ sendTokens_Commit(c)
    \/ sendTokens_CommitFails(c)
    \/ sendVerificationCode(c)
    \/ sendVerificationCode_Finish(c)
    \/ verifyCode(c)
    \/ verifyCode_Finish(c)

SpecSend2FA == InitSend2FA /\ [][NextSend2FA]_vars

\* verifyCode calls against one code issued before: u1 has the second
\* factor enabled and holds an unused code for SEND
InitVerifyCode ==
  /\ InitLedger
  /\ testRun = NoRun
  /\ supported_tokens = InitialTokens
  /\ token_prices = {}
  /\ tokenCache = EmptyCache
  /\ lookups = NoLookups
  /\ calls = [c \in Calls |-> Blank]
  /\ transactions = {}
  /\ notification_queue = <<>>
  /\ drains = [d \in Drains |-> IdleDrain]
  /\ now = 0
  /\ verification_codes = <<CodeRow(0, "u1", <<"1", "2">>, "SEND")>>
  /\ wallets = <<WalletRow("u1", "a1"), WalletRow("u2", "a2")>>
  /\ contacts = {}
  /\ \E sec \in BOOLEAN :
       users = [u \in InitialUsers |->
                  IF u = "u1"
                  THEN [UserRow(<<"1", "2">>, TRUE, [DefaultPrefs EXCEPT !.security = sec])
                          EXCEPT !.two_factor_enabled = TRUE]
                  ELSE UserRow(<<"2", "1">>, TRUE, DefaultPrefs)]

NextVerifyCode ==
  \E c \in Calls :
    \/ verifyCode(c)
    \/ verifyCode_Finish(c)

SpecVerifyCode == InitVerifyCode /\ [][NextVerifyCode]_vars

\* verifyCode calls while time passes: u1 has the second factor enabled and
\* holds an unused code for SEND, issued so long before that it expires at
\* minute 0 or later within the minutes the clock advances
InitCodeExpiry ==
  /\ InitLedger
  /\ testRun = NoRun
  /\ supported_tokens = InitialTokens
  /\ token_prices = {}
  /\ tokenCache = EmptyCache
  /\ lookups = NoLookups
  /\ calls = [c \in Calls |-> Blank]
  /\ transactions = {}
  /\ notification_queue = <<>>
  /\ drains = [d \in Drains |-> IdleDrain]
  /\ now = 0
  /\ \E issued \in (0 - CodeTtlMinutes)..(MaxNow - 1 - CodeTtlMinutes) :
       verification_codes =
         <<[CodeRow(0, "u1", <<"1", "2">>, "SEND")
              EXCEPT !.expires_at = issued + CodeTtlMinutes, !.created_at = issued]>>
  /\ wallets = <<WalletRow("u1", "a1"), WalletRow("u2", "a2")>>
  /\ contacts = {}
  /\ \E sec \in BOOLEAN :
       users = [u \in InitialUsers |->
                  IF u = "u1"
                  THEN [UserRow(<<"1", "2">>, TRUE, [DefaultPrefs EXCEPT !.security = sec])
                          EXCEPT !.two_factor_enabled = TRUE]
                  ELSE UserRow(<<"2", "1">>, TRUE, DefaultPrefs)]

NextCodeExpiry ==
  \/ Tick
  \/ \E c \in Calls :
       \/ verifyCode(c)
       \/ verifyCode_Finish(c)

SpecCodeExpiry == InitCodeExpiry /\ [][NextCodeExpiry]_vars

\* u1 and u2 have a wallet each and no PIN; p0 is a new phone number
InitWallets ==
  /\ InitTables
  /\ InitLedger
  /\ testRun = NoRun
  /\ supported_tokens = InitialTokens
  /\ token_prices = {}
  /\ tokenCache = EmptyCache
  /\ lookups = NoLookups
  /\ users = [u \in InitialUsers |-> UserRow(NoPin, FALSE, DefaultPrefs)]

\* CREATE commands and direct createWallet calls
NextWallets ==
  \E c \in Calls :
    \/ handleCreateCommand(c)
    \/ createWallet(c)
    \/ createWallet_Select(c)
    \/ createWallet_Commit(c)

SpecWallets == InitWallets /\ [][NextWallets]_vars

\* recordIncomingTransaction on its own, for recipients inside and outside
\* the system
NextIncoming ==
  \E c \in Calls :
    \/ recordIncomingTransaction_Any(c)
    \/ recordIncomingTransaction_Insert(c)
    \/ recordIncomingTransaction_Fails(c)
    \/ recordIncomingTransaction_Notify(c)
    \/ recordIncomingTransaction_Commit(c)

SpecIncoming == Init /\ [][NextIncoming]_vars

\* the gated commands of users with a verified PIN; u1 has the contact MAMA
InitSendCommand ==
  /\ InitLedger
  /\ testRun = NoRun
  /\ supported_tokens = InitialTokens
  /\ token_prices = {}
  /\ tokenCache = EmptyCache
  /\ lookups = NoLookups
  /\ calls = [c \in Calls |-> Blank]
  /\ transactions = {}
  /\ notification_queue = <<>>
  /\ drains = [d \in Drains |-> IdleDrain]
  /\ now = 0
  /\ verification_codes = <<>>
  /\ wallets = <<WalletRow("u1", "a1"), WalletRow("u2", "a2")>>
  /\ contacts = {ContactRow("u1", "MAMA", "a2")}
  /\ users = [u \in InitialUsers |-> UserRow(<<"1", "2">>, TRUE, DefaultPrefs)]

NextSendCommand ==
  \E c \in Calls :
    \/ processCommand(c)
    \/ handleBalanceCommand(c)
    \/ handleHistoryCommand(c)
    \/ handleSendCommand(c)
    \/ sendTokens_Precheck(c)
    \/ sendTokens_Submit(c)
    \/ sendTokens_SubmitRejected(c)
    \/ sendTokens_SubmitTimeout(c)
    \/ sendTokens_Insert(c)
    \/ sendTokens_InsertFails(c)
    \/ sendTokens_Notify(c)
    \/ sendTokens_Commit(c)
    \/ sendTokens_CommitFails(c)

SpecSendCommand == InitSendCommand /\ [][NextSendCommand]_vars

\* SMS texts of users with a verified PIN, parsed and carried out
NextParse ==
  \E c \in Calls :
    \/ processCommand_Receive(c)
    \/ processCommand_Parse(c)
    \/ handleBalanceCommand(c)
    \/ handleHistoryCommand(c)
    \/ handleSendCommand(c)
    \/ sendTokens_Precheck(c)
    \/ sendTokens_Submit(c)
    \/ sendTokens_SubmitRejected(c)
    \/ sendTokens_SubmitTimeout(c)
    \/ sendTokens_Insert(c)
    \/ sendTokens_InsertFails(c)
    \/ sendTokens_Notify(c)
    \/ sendTokens_Commit(c)
    \/ sendTokens_CommitFails(c)

SpecParse == InitSendCommand /\ [][NextParse]_vars

\* testPINSetup for a new phone number, next to one command of any user:
\* a gated command or NOTIFICATIONS
NextPinSetup ==
  \/ testPINSetup_Create
  \/ testPINSetup_Balance
  \/ testPINSetup_SetupPin
  \/ testPINSetup_VerifyPin
  \/ testPINSetup_Response
  \/ processCommand(2) /\ calls'[2].cmd # "SEND"
  \/ handleNotificationsCommand(2)
  \/ \E c \in Calls :
       \/ createWallet_Select(c)
       \/ createWallet_Commit(c)
       \/ handleBalanceCommand(c)
       \/ handleHistoryCommand(c)
       \/ setupPin_Finish(c)
       \/ verifyPin_Finish(c)
       \/ updateNotificationPreferences_Update(c)

\* every awaited step of a handler is taken in the end
FairPinSetup == WF_vars(NextPinSetup)

SpecPinSetup == Init /\ [][NextPinSetup]_vars /\ FairPinSetup

\* addContact calls of any user, with any alias and address
NextContacts ==
  \E c \in Calls :
    \/ addContact(c)
    \/ addContact_Select(c)
    \/ addContact_Write(c)

SpecContacts == Init /\ [][NextContacts]_vars

\* POST requests to the /webhook routes, with any credentials
NextWebhook ==
  \E c \in Calls :
    \/ router_post(c)
    \/ recordIncomingTransaction_Insert(c)
    \/ recordIncomingTransaction_Fails(c)
    \/ recordIncomingTransaction_Notify(c)
    \/ recordIncomingTransaction_Commit(c)
    \/ handleAddToken(c)
    \/ handleUpdatePrices(c)

SpecWebhook == Init /\ [][NextWebhook]_vars

\* a SEND command next to the running watcher; u1 has the contact MAMA for
\* an address outside the system
InitWatcher ==
  /\ InitLedger
  /\ testRun = NoRun
  /\ supported_tokens = InitialTokens
  /\ token_prices = {}
  /\ tokenCache = EmptyCache
  /\ lookups = NoLookups
  /\ calls = [c \in Calls |-> Blank]
  /\ transactions = {}
  /\ notification_queue = <<>>
  /\ drains = [d \in Drains |-> IdleDrain]
  /\ now = 0
  /\ verification_codes = <<>>
  /\ wallets = <<WalletRow("u1", "a1"), WalletRow("u2", "a2")>>
  /\ contacts = {ContactRow("u1", "MAMA", "x")}
  /\ users = [u \in InitialUsers |-> UserRow(<<"1", "2">>, TRUE, DefaultPrefs)]

WatcherCall == 2      \* the POST the watcher is waiting for

NextWatcher ==
  \/ processCommand(1) /\ calls'[1].cmd = "SEND"
  \/ checkWalletTransactions(WatcherCall)
  \/ sendTransactionWebhook_Response(WatcherCall)
  \/ \E c \in Calls :
       \/ handleSendCommand(c)
       \/ sendTokens_Precheck(c)
       \/ sendTokens_Submit(c)
       \/ sendTokens_SubmitRejected(c)
       \/ sendTokens_SubmitTimeout(c)
       \/ sendTokens_Insert(c)
       \/ sendTokens_InsertFails(c)
       \/ sendTokens_Notify(c)
       \/ sendTokens_Commit(c)
       \/ sendTokens_CommitFails(c)
       \/ recordIncomingTransaction_Insert(c)
       \/ recordIncomingTransaction_Notify(c)
       \/ recordIncomingTransaction_Commit(c)

\* the watcher polls every 30 seconds, and the handlers it reaches go on
FairWatcher ==
  /\ WF_vars(checkWalletTransactions(WatcherCall))
  /\ WF_vars(sendTransactionWebhook_Response(WatcherCall))
  /\ WF_vars(recordIncomingTransaction_Insert(WatcherCall))
  /\ WF_vars(recordIncomingTransaction_Notify(WatcherCall))
  /\ WF_vars(recordIncomingTransaction_Commit(WatcherCall))

SpecWatcher == InitWatcher /\ [][NextWatcher]_vars /\ FairWatcher

\* a notification of u1 created some minutes before minute 0: sent at once,
\* or unsent after a number of failed attempts, the last retry scheduled
\* after the backoffs of the attempts
AgedRow(age, sent, failures) ==
  [user |-> "u1", type |-> "TRANSACTION", by |-> 0, is_sent |-> sent,
   retry_count |-> failures, max_retries |-> DefaultMaxRetries,
   next_retry_at |-> IF failures = 0 THEN 0 - age
                     ELSE 0 - age + 2 * (2 ^ failures) - 2,
   created_at |-> 0 - age,
   sent_at |-> IF sent THEN <<0 - age>> ELSE NoTime,
   delivered |-> IF sent THEN 1 ELSE 0,
   attempts |-> IF sent THEN 1 ELSE failures,
   expect |-> NoExpect, optedOut |-> FALSE]

\* rows a little older and a little younger than the retention window: sent,
\* exhausted, and unsent with attempts left
AgedRows ==
  {AgedRow(age, sent, failures) :
     age \in {RetentionMinutes + 1, RetentionMinutes - 1},
     sent \in BOOLEAN, failures \in {0, DefaultMaxRetries - 1, DefaultMaxRetries}}
  \ {AgedRow(age, TRUE, failures) :
       age \in {RetentionMinutes + 1, RetentionMinutes - 1},
       failures \in {DefaultMaxRetries - 1, DefaultMaxRetries}}

\* the daily sweep next to the drain: the queue holds aged rows, oldest first
InitCleanup ==
  /\ InitLedger
  /\ testRun = NoRun
  /\ supported_tokens = InitialTokens
  /\ token_prices = {}
  /\ tokenCache = EmptyCache
  /\ lookups = NoLookups
  /\ calls = [c \in Calls |-> Blank]
  /\ transactions = {}
  /\ drains = [d \in Drains |-> IdleDrain]
  /\ now = 0
  /\ verification_codes = <<>>
  /\ wallets = <<WalletRow("u1", "a1"), WalletRow("u2", "a2")>>
  /\ contacts = {}
  /\ users = [u \in InitialUsers |-> UserRow(<<"1", "2">>, TRUE, DefaultPrefs)]
  /\ \E n \in 0..MaxQueue : \E q \in [1..n -> AgedRows] :
       /\ \A i, j \in 1..n : i < j => q[i].created_at <= q[j].created_at
       /\ notification_queue = q

NextCleanup ==
  \/ Enqueue({"TRANSACTION"})
  \/ Tick
  \/ \E c \in Calls : cleanupOldNotifications(c)
  \/ \E d \in Drains :
       \/ processNotificationQueue_Select(d)
       \/ processNotificationQueue_Sent(d)
       \/ processNotificationQueue_NotSent(d)
       \/ processNotificationQueue_Commit(d)

SpecCleanup == InitCleanup /\ [][NextCleanup]_vars

\* tokenService alone: addSupportedToken next to the cached lookups, each
\* continuing after its query in any order
NextTokenCache ==
  \/ \E c \in Calls :
       \/ addSupportedToken(c)
       \/ addSupportedToken_Invalidate(c)
  \/ \E l \in Lookups :
       \/ getTokenBySymbol_Get(l)
       \/ getSupportedTokens_Get(l)
       \/ getTokenBalance_Get(l)
       \/ Lookup_Set(l)
  \/ tokenCache_Expire

SpecTokenCache == Init /\ [][NextTokenCache]_vars

\* the NOTIFICATIONS command next to the handlers that enqueue
InitPrefs ==
  /\ InitTables
  /\ InitLedger
  /\ testRun = NoRun
  /\ supported_tokens = InitialTokens
  /\ token_prices = {}
  /\ tokenCache = EmptyCache
  /\ lookups = NoLookups
  /\ users = [u \in InitialUsers |-> UserRow(<<"1", "2">>, TRUE, DefaultPrefs)]

NextPrefs ==
  \/ Enqueue(NotificationTypes)
  \/ \E c \in Calls :
       \/ handleNotificationsCommand(c)
       \/ updateNotificationPreferences_Update(c)

SpecPrefs == InitPrefs /\ [][NextPrefs]_vars

\* the drain next to setupPin, without database faults: u1 has no PIN yet
InitDrainLive ==
  /\ InitTables
  /\ InitLedger
  /\ testRun = NoRun
  /\ supported_tokens = InitialTokens
  /\ token_prices = {}
  /\ tokenCache = EmptyCache
  /\ lookups = NoLookups
  /\ users = [u \in InitialUsers |->
                IF u = "u1" THEN UserRow(NoPin, FALSE, DefaultPrefs)
                ELSE UserRow(<<"1", "2">>, TRUE, DefaultPrefs)]

NextDrainLive ==
  \/ Enqueue({"TRANSACTION"})
  \/ Tick
  \/ \E c \in Calls :
       \/ setupPin(c)
       \/ setupPin_Finish(c)
  \/ \E d \in Drains :
       \/ processNotificationQueue_Select(d)
       \/ processNotificationQueue_Sent(d)
       \/ processNotificationQueue_NotSent(d)
       \/ processNotificationQueue_Commit(d)

\* the scheduler starts a drain every minute (db.ts line 147), every started
\* drain runs to its COMMIT, the gateway answers, time advances, and a
\* started setupPin issues its next statement
FairDrain ==
  /\ WF_vars(Tick)
  /\ \A c \in Calls : WF_vars(setupPin_Finish(c))
  /\ \A d \in Drains :
       /\ WF_vars(processNotificationQueue_Select(d))
       /\ WF_vars(processNotificationQueue_Sent(d) \/ processNotificationQueue_NotSent(d))
       /\ WF_vars(processNotificationQueue_Commit(d))

SpecDrainLive == InitDrainLive /\ [][NextDrainLive]_vars /\ FairDrain

----------------------------------------------------------------------------
(* Properties of the settlement engine, checked under Spec *)

RowsWithSig(sig) == {t \in transactions : t.sig = sig}
RowsBy(c) == {t \in transactions : t.by = c}
NotifsBy(c) == {i \in DOMAIN notification_queue : notification_queue[i].by = c}
NotifsForSig(sig) ==
  {i \in DOMAIN notification_queue : calls[notification_queue[i].by].sig = sig}
OptedIn(u) == users[u].prefs.transactions

\* C1: a sendTokens call that passed validation, got a signature from the
\* ledger and met no database error has returned success, exactly one
\* COMPLETED row carries its signature, and exactly one TRANSACTION
\* notification was enqueued for the sender (none if the sender opted out).
C1_SendRecordedExactlyOnce ==
  \A c \in Calls :
    (calls[c].kind = "send" /\ calls[c].pc = "done" /\ calls[c].sig # 0 /\ ~calls[c].fault)
      => /\ calls[c].ok
         /\ Cardinality({t \in RowsWithSig(calls[c].sig) : t.status = "COMPLETED"}) = 1
         /\ Cardinality(NotifsBy(c)) =
              IF OptedIn(walletOwner(calls[c].wallet)) THEN 1 ELSE 0

\* C2: a recordIncomingTransaction call that follows a successful recording
\* of the same signature returns success without a second insert: one row
\* and one RECEIVE notification exist for the signature afterwards.
C2_RecordIncomingIdempotent ==
  \A c \in Calls :
    (calls[c].kind = "record" /\ calls[c].repeat /\ ~calls[c].fault)
      => /\ ~calls[c].pending
         /\ calls[c].pc = "done" =>
              /\ calls[c].ok
              /\ Cardinality(RowsWithSig(calls[c].sig)) = 1
              /\ Cardinality(NotifsForSig(calls[c].sig)) <= 1

\* C3: no two transactions rows share a transaction_signature.
C3_SignatureUnique ==
  \A t1, t2 \in transactions : t1.sig = t2.sig => t1 = t2

\* C4: of two sendTokens calls on the same wallet and asset, the second
\* begun while the first was in flight, that read the same balance, each
\* amount fitting it and the sum exceeding it, at most one passes the balance
\* checks and submits a transfer.
C4_SendsSerializedPerWallet ==
  \A c, d \in Calls :
    (/\ c \in calls[d].during
     /\ calls[c].kind = "send" /\ calls[d].kind = "send"
     /\ calls[c].wallet # "none" /\ calls[c].wallet = calls[d].wallet
     /\ calls[c].token = calls[d].token
     /\ calls[c].balance = calls[d].balance
     /\ calls[c].amount + calls[d].amount > calls[c].balance)
      => ~(calls[c].submitted /\ calls[d].submitted)

\* C7: a notification row is visible to other connections only if the
\* Transaction Record of the same call is committed.
C7_NotificationOnlyWithRecord ==
  \A i \in DOMAIN notification_queue :
    RowsBy(notification_queue[i].by) # {}

\* C8: a sendTokens call whose submission or confirmation wait did not
\* return has no row, no pending insert and no notification, and returns
\* success = false with a failure message.
C8_FailedSubmissionNotRecorded ==
  \A c \in Calls :
    (calls[c].kind = "send" /\ ~calls[c].confirmed)
      => /\ ~calls[c].pending
         /\ RowsBy(c) = {}
         /\ NotifsBy(c) = {}
         /\ calls[c].pc = "done" => (~calls[c].ok /\ calls[c].msg \notin {"Sent", "none"})

\* C8 witness: a transfer landed, its confirmation wait timed out and the
\* call has returned
C8_Witness ==
  \E c \in Calls :
    /\ calls[c].kind = "send" /\ calls[c].pc = "done"
    /\ calls[c].submitted /\ ~calls[c].confirmed /\ calls[c].landedSig # 0

----------------------------------------------------------------------------
(* Properties of the PIN gate and of verifyPin, checked under SpecAuth *)

\* C5: a BALANCE, SEND or HISTORY command whose sender had no PIN or an
\* unverified PIN at the gate has returned a guidance message and has read no
\* balance and no history, submitted nothing to the ledger and inserted no
\* transaction.
C5_GateBlocksUnverified ==
  \A c \in Calls :
    (calls[c].cmd \in GatedCommands /\ ~calls[c].pinOk)
      => /\ calls[c].pc = "done" /\ ~calls[c].ok
         /\ calls[c].msg \in GuidanceMessages
         /\ ~calls[c].balanceRead /\ ~calls[c].historyRead
         /\ ~calls[c].submitted /\ ~calls[c].pending
         /\ RowsBy(c) = {} /\ NotifsBy(c) = {}

\* C5 witness: a command of a sender with a stored but unverified PIN was
\* turned away, while another command passed the gate and acted
C5_Witness ==
  /\ \E c \in Calls :
       /\ calls[c].cmd \in GatedCommands /\ ~calls[c].pinOk /\ calls[c].pc = "done"
       /\ calls[c].msg = "PIN not verified. Use VERIFY PIN <your-pin> to verify."
  /\ \E c \in Calls :
       calls[c].cmd \in GatedCommands /\ calls[c].pinOk
         /\ (calls[c].balanceRead \/ calls[c].historyRead \/ calls[c].submitted)

\* C6: a verifyPin call on a user with a stored PIN succeeds exactly when the
\* input equals the stored PIN, and a failed call leaves pin_verified as it
\* found it.
C6_VerifyPinExactMatch ==
  \A c \in Calls :
    (calls[c].kind = "verifyPin" /\ calls[c].pc = "done" /\ calls[c].stored # NoPin)
      => /\ calls[c].ok <=> (calls[c].input = calls[c].stored)
         /\ ~calls[c].ok => (calls[c].verifiedAfter = calls[c].verifiedBefore)

----------------------------------------------------------------------------
(* Properties of the drain, checked under SpecDrain *)

C10_DeliveredAtMostOnce ==
  \A i \in DOMAIN notification_queue : notification_queue[i].delivered <= 1

\* the row is in the batch of an open drain
Held(i) == \E d \in Drains : i \in LockedRows(d)

\* C11: once the drain of a failed delivery attempt (gateway failure or a
\* thrown error) has ended and the retry budget is not exhausted, the row's
\* attempt count is the count before the attempt plus 1, the row is unsent,
\* and next_retry_at is NOW() of the attempt + 2^count minutes, later than
\* that NOW().
C11_FailureSchedulesRetry ==
  \A i \in DOMAIN notification_queue :
    LET row == notification_queue[i]
    IN (~Held(i) /\ row.expect # NoExpect /\ row.expect.count < row.max_retries)
         => /\ row.retry_count = row.expect.count
            /\ ~row.is_sent
            /\ row.next_retry_at = row.expect.at + 2 ^ row.expect.count
            /\ row.next_retry_at > row.expect.at

\* C12: sendSms is called for a notification at most max_retries times, and
\* a row whose retry_count has reached max_retries is in no drain's batch.
C12_AttemptsWithinBudget ==
  \A i \in DOMAIN notification_queue :
    /\ notification_queue[i].attempts <= notification_queue[i].max_retries
    /\ Held(i) => notification_queue[i].retry_count < notification_queue[i].max_retries

\* the row exists and the SELECT of a drain would take it, locks aside
Due(i) == i \in DOMAIN notification_queue /\ ReadyToSend(notification_queue[i])

\* C13: under fair drain runs and advancing time no notification stays due
\* for an attempt forever: each is attempted again and again until it is
\* sent or its retry budget is used up.
C13_EveryNotificationSettles ==
  \A i \in 1..MaxQueue : []<>(~Due(i))

\* C14: a notification of a category the user has switched off with
\* NOTIFICATIONS OFF (and not switched on again) is never enqueued: no row of
\* notification_queue was inserted while its category was off for its user.
C14_OptOutStopsEnqueue ==
  \A i \in DOMAIN notification_queue : ~notification_queue[i].optedOut

\* the PIN state of a users row: 0 no PIN, 1 PIN stored and not verified,
\* 2 PIN stored and verified
PinRank(row) == IF row.pin = NoPin THEN 0 ELSE IF row.pin_verified THEN 2 ELSE 1

\* C15 (state part): a user whose pin_verified flag is set has a stored PIN.
C15_VerifiedHasPin ==
  \A u \in Registered : users[u].pin_verified => users[u].pin # NoPin

\* C15: the PIN state of a user only moves forward: no step of setupPin,
\* verifyPin, setup2FA, disable2FA, resetPin or completeResetPin resets
\* pin_verified from true to false or removes a stored PIN, and a set
\* pin_verified flag comes with a stored PIN.
C15_PinStateMonotonic ==
  [][/\ \A u \in Registered :
          /\ users[u].pin_verified => users'[u].pin_verified
          /\ users[u].pin # NoPin => users'[u].pin # NoPin
          /\ PinRank(users'[u]) >= PinRank(users[u])
     /\ C15_VerifiedHasPin']_vars

\* C15 witness: completeResetPin has replaced the PIN of a user who had a
\* verified PIN, and the user is still verified
C15_Witness ==
  \E c \in Calls :
    /\ calls[c].kind = "completeResetPin" /\ calls[c].pc = "done" /\ calls[c].ok
    /\ calls[c].verifiedBefore /\ calls[c].stored # calls[c].input
    /\ users[calls[c].phone].pin = calls[c].input
    /\ users[calls[c].phone].pin_verified

\* a setupPin call for user u holds the users row with its PIN not yet
\* committed
SetupPinInFlight(u) ==
  \E c \in Calls : /\ calls[c].kind = "setupPin" /\ calls[c].phone = u
                   /\ calls[c].pc \in {"updated", "blocked"}

\* the setupPin calls for user u that returned success
SetupPinSucceeded(u) ==
  {c \in Calls : /\ calls[c].kind = "setupPin" /\ calls[c].phone = u
                 /\ calls[c].pc = "done" /\ calls[c].ok}

\* a step in which setupPin call c returns
SetupPinReturns(c) ==
  calls[c].pc # "done" /\ calls'[c].kind = "setupPin" /\ calls'[c].pc = "done"

\* C16 (rejection): a setupPin call on a user with a stored PIN returns the
\* guidance message and leaves users and the notification queue as they are;
\* a call that returns success found no stored PIN.
C16_RejectedWhenPinExists ==
  [][\A c \in Calls :
       SetupPinReturns(c) =>
         LET u == calls'[c].phone
         IN /\ (u \in Registered /\ users[u].pin # NoPin)
                 => /\ ~calls'[c].ok
                    /\ calls'[c].msg = "PIN already exists. Use VERIFY PIN <your-pin> to verify your PIN."
                    /\ users' = users
                    /\ notification_queue' = notification_queue
            /\ calls'[c].ok => (users[u].pin = NoPin /\ users'[u].pin # NoPin)]_vars

\* C16 (at most one): no two setupPin calls for the same user succeed.
C16_AtMostOneSucceeds ==
  [](\A u \in Registered : Cardinality(SetupPinSucceeded(u)) <= 1)

\* C16: setupPin succeeds only for a user without a stored PIN and is
\* otherwise rejected with the guidance message and no effect; of the
\* setupPin calls that run for a user without a PIN exactly one succeeds:
\* never two, and one of them does.
C16_SetupPinOnlyWithoutPin ==
  /\ C16_RejectedWhenPinExists
  /\ C16_AtMostOneSucceeds
  /\ \A u \in Phones : SetupPinInFlight(u) ~> (SetupPinSucceeded(u) # {})

\* C17: a user with two_factor_enabled has a verified PIN, and a setup2FA
\* call for a user whose PIN is missing or unverified has been rejected and
\* has left two_factor_enabled false.
C17_TwoFactorNeedsVerifiedPin ==
  /\ \A u \in Registered : users[u].two_factor_enabled => users[u].pin_verified
  /\ \A c \in Calls :
       (/\ calls[c].kind = "setup2FA" /\ calls[c].phone \in Registered
        /\ ~users[calls[c].phone].pin_verified)
         => /\ calls[c].pc = "done" /\ ~calls[c].ok
            /\ calls[c].msg = "You must verify your PIN before enabling 2FA. Use VERIFY PIN <your-pin> to verify."
            /\ ~users[calls[c].phone].two_factor_enabled

\* C17 witness: setup2FA was rejected for a user with an unverified PIN and
\* has enabled the second factor of a user with a verified PIN
C17_Witness ==
  /\ \E c \in Calls :
       /\ calls[c].kind = "setup2FA" /\ calls[c].pc = "done" /\ ~calls[c].ok
       /\ calls[c].phone \in Registered
       /\ users[calls[c].phone].pin # NoPin /\ ~users[calls[c].phone].pin_verified
  /\ \E c \in Calls :
       /\ calls[c].kind = "setup2FA" /\ calls[c].pc = "done" /\ calls[c].ok
       /\ users[calls[c].phone].two_factor_enabled

\* C18: completeResetPin replaces the PIN and sets pin_verified only for a
\* user who had an unused, unexpired PIN_RESET code for the call to consume:
\* a call that found no such code has not succeeded.
C18_ResetConsumesCode ==
  \A c \in Calls :
    (calls[c].kind = "completeResetPin" /\ calls[c].pc = "done" /\ calls[c].ok)
      => calls[c].hadResetCode

\* verifyCode has accepted a code issued to user u for operation
CodeAccepted(u, operation) ==
  \E i \in DOMAIN verification_codes :
    /\ verification_codes[i].user = u
    /\ verification_codes[i].operation = operation
    /\ verification_codes[i].is_used

\* C19: a SEND command of a user with two_factor_enabled has submitted a
\* transfer to the ledger only if verifyCode accepted a one-time code issued
\* to that user for the operation.
C19_SendNeedsAcceptedCode ==
  \A c \in Calls :
    (/\ calls[c].cmd = "SEND" /\ calls[c].submitted
     /\ users[walletOwner(calls[c].wallet)].two_factor_enabled)
      => CodeAccepted(walletOwner(calls[c].wallet), "SEND")

\* the codes of a user and operation that are neither used nor expired
UsableCodes(u, operation) ==
  {i \in CodesOf(u, operation) :
     ~verification_codes[i].is_used /\ verification_codes[i].expires_at >= now}

\* C20: for every user and operation the table verification_codes holds at
\* most one code that is neither used nor expired: sendVerificationCode and
\* resetPin delete the earlier codes of the user and operation before they
\* insert the new one.
C20_OneUsableCodePerOperation ==
  \A u \in Registered, operation \in Operations :
    Cardinality(UsableCodes(u, operation)) <= 1

\* C20 witness: two calls of sendVerificationCode or resetPin for the same
\* user and operation have both stored a code, and the table holds only the
\* code of the later one
C20_Witness ==
  \E c, d \in Calls :
    /\ c # d
    /\ calls[c].kind \in {"sendVerificationCode", "resetPin"}
    /\ calls[d].kind \in {"sendVerificationCode", "resetPin"}
    /\ calls[c].phone = calls[d].phone /\ calls[c].operation = calls[d].operation
    /\ calls[c].pc = "done" /\ calls[c].ok /\ calls[c].input # <<>>
    /\ calls[d].pc = "done" /\ calls[d].ok /\ calls[d].input # <<>>
    /\ \E i \in DOMAIN verification_codes :
         /\ verification_codes[i].id = d
         /\ UsableCodes(calls[d].phone, calls[d].operation) = {i}
         /\ CodesOf(calls[d].phone, calls[d].operation) = {i}

\* C21: a verification code is accepted at most once: no two verifyCode
\* calls have returned success for the same stored code.
C21_CodeAcceptedOnce ==
  \A c, d \in Calls :
    (/\ calls[c].kind = "verifyCode" /\ calls[c].pc = "done" /\ calls[c].ok
     /\ calls[d].kind = "verifyCode" /\ calls[d].pc = "done" /\ calls[d].ok
     /\ calls[c].codeRead = calls[d].codeRead)
      => c = d

\* C22: every user has at most one wallets row with is_active = true.
C22_OneActiveWallet ==
  \A p \in Phones : Cardinality(ActiveWallets(p)) <= 1

\* C23: a recordIncomingTransaction call whose recipient address is the
\* public key of no wallet returns false in its next step, and that step
\* leaves the transactions table and the notification queue unchanged; such a
\* call has inserted no row.
C23_UnknownRecipientNoEffect ==
  [][\A c \in Calls :
       (/\ calls[c].kind = "record" /\ calls[c].pc = "recording"
        /\ walletOwner(calls[c].recipient) = "none"
        /\ calls'[c] # calls[c])
         => /\ calls'[c].pc = "done" /\ ~calls'[c].ok
            /\ transactions' = transactions
            /\ notification_queue' = notification_queue
            /\ RowsBy(c) = {} /\ NotifsBy(c) = {}]_vars

\* C23 witness: a call for an address outside the system has returned false
\* without a fault, next to a call that recorded a transfer to a wallet
C23_Witness ==
  /\ \E c \in Calls :
       /\ calls[c].kind = "record" /\ calls[c].pc = "done" /\ ~calls[c].ok
       /\ ~calls[c].fault /\ walletOwner(calls[c].recipient) = "none"
       /\ RowsBy(c) = {}
  /\ \E c \in Calls :
       /\ calls[c].kind = "record" /\ calls[c].pc = "done" /\ calls[c].ok
       /\ RowsBy(c) # {}

\* call c is a SEND command that passed the PIN gate and whose recipient
\* text is neither an alias of the sender's contacts nor a valid address
SendToNobody(c) ==
  /\ calls[c].kind = "command" /\ calls[c].pc = "gated" /\ calls[c].cmd = "SEND"
  /\ calls[c].pinOk
  /\ ContactsOf(calls[c].phone, normalizeAlias(calls[c].recipient)) = {}
  /\ ~IsValidAddress(calls[c].recipient)

\* the step of call c returns a failure and submits and records nothing
RefusedWithoutEffect(c) ==
  /\ calls'[c].pc = "done" /\ ~calls'[c].ok /\ ~calls'[c].submitted
  /\ transactions' = transactions
  /\ notification_queue' = notification_queue
  /\ ledgerVars' = ledgerVars

\* C24 as stated: every SEND command of a PIN-verified user whose recipient
\* text is neither a contact alias of the sender nor a valid address is
\* answered with the invalid-recipient error, and nothing is submitted to the
\* ledger, recorded or enqueued.
C24_InvalidRecipientRefused ==
  [][\A c \in Calls :
       (SendToNobody(c) /\ calls'[c] # calls[c])
         => /\ RefusedWithoutEffect(c)
            /\ calls'[c].msg = "Invalid recipient address"]_vars

\* C24 amended: such a SEND command submits, records and enqueues nothing;
\* its reply is the invalid-recipient error when the amount is greater than
\* 0 and the invalid-amount error otherwise.
C24_InvalidRecipientRefused_Amended ==
  [][\A c \in Calls :
       (SendToNobody(c) /\ calls'[c] # calls[c])
         => /\ RefusedWithoutEffect(c)
            /\ calls'[c].msg = IF calls[c].amount > 0
                               THEN "Invalid recipient address"
                               ELSE "Invalid amount. Amount must be greater than 0."]_vars

\* C24 witness: a SEND with a positive amount was answered with the
\* invalid-recipient error, next to a SEND that was submitted
C24_Witness ==
  /\ \E c \in Calls :
       /\ calls[c].kind = "send" /\ calls[c].cmd = "SEND" /\ calls[c].pc = "done"
       /\ calls[c].msg = "Invalid recipient address"
  /\ \E c \in Calls : calls[c].cmd = "SEND" /\ calls[c].submitted

\* the responses C25 lists for CREATE, BALANCE, SETUP PIN, VERIFY PIN, BALANCE
ExpectedResponses ==
  <<"Wallet created successfully.",
    "Security not set up. Send SETUP PIN to secure your wallet.",
    "Your new PIN is set",
    "PIN verified successfully. Your account is now secure.",
    "balances">>

\* somebody changed the notification preferences of the new user
PreferencesChanged ==
  TestPhone \in Registered /\ users[TestPhone].prefs # DefaultPrefs

\* C25: for a new phone number the commands CREATE, BALANCE, SETUP PIN,
\* VERIFY PIN <returned PIN>, BALANCE are answered in order with: wallet
\* created, authorization required, the new PIN, the verification
\* confirmation, the balances; the PIN ends verified.  (Runs in which the
\* user's notification preferences are changed meanwhile are left aside.)
C25_PinSetupSequence ==
  <>(\/ /\ testRun.step = 5
        /\ testRun.responses = ExpectedResponses
        /\ PinUsable(TestPhone)
     \/ PreferencesChanged)

\* the sequence of C25 ran to its end once the security notifications of
\* the new user were switched off
C25_SequenceCompletes ==
  /\ testRun.step = 5
  /\ testRun.responses = ExpectedResponses
  /\ PinUsable(TestPhone)

\* C25: SETUP PIN of the new user never returns
C25_SetupPinHangs ==
  /\ testRun.step = 2
  /\ calls[TestCall].kind = "setupPin" /\ calls[TestCall].pc = "blocked"
  /\ ~PreferencesChanged

\* addContact call c2 follows call c1: both returned, c1 before c2 began,
\* for the same user and normalized alias, with valid addresses, and no
\* other call has been made for this user and alias
FollowingUpsert(c1, c2) ==
  /\ c1 < c2
  /\ \A d \in Calls \ {c1, c2} :
       ~(/\ calls[d].kind = "addContact"
         /\ calls[d].phone = calls[c2].phone /\ calls[d].alias = calls[c2].alias)
  /\ calls[c1].kind = "addContact" /\ calls[c1].pc = "done"
  /\ calls[c2].kind = "addContact" /\ calls[c2].pc = "done"
  /\ c1 \notin calls[c2].during
  /\ calls[c1].phone = calls[c2].phone /\ calls[c1].phone \in Registered
  /\ calls[c1].alias = calls[c2].alias
  /\ IsValidAddress(calls[c1].wallet) /\ IsValidAddress(calls[c2].wallet)

\* the contacts of the user of call c hold one row for the alias of c, with
\* the address of c, and every spelling of the alias resolves to it
OneRowWithAddressOf(c) ==
  /\ ContactsOf(calls[c].phone, calls[c].alias)
       = {ContactRow(calls[c].phone, calls[c].alias, calls[c].wallet)}
  /\ \A spelling \in AliasTexts :
       normalizeAlias(spelling) = calls[c].alias
         => resolveAlias(calls[c].phone, spelling) = calls[c].wallet

\* C26 as stated: for every user, every two aliases equal after trim and
\* uppercasing and every two valid addresses, addContact with addrA followed
\* by addContact with addrB leaves exactly one contacts row for the user and
\* normalized alias, holding addrB, and resolveAlias returns addrB for
\* either spelling.
C26_UpsertOverwrites ==
  \A c1, c2 \in Calls : FollowingUpsert(c1, c2) => OneRowWithAddressOf(c2)

\* C26 amended: the same for aliases whose normalized form fits the alias
\* column (20 characters); a longer alias is refused and stores no row.
C26_UpsertOverwrites_Amended ==
  \A c1, c2 \in Calls :
    FollowingUpsert(c1, c2)
      => IF FitsAliasColumn(calls[c2].alias)
         THEN OneRowWithAddressOf(c2)
         ELSE /\ ~calls[c1].ok /\ ~calls[c2].ok
              /\ ContactsOf(calls[c2].phone, calls[c2].alias) = {}

\* C26 witness: "MAMA" was stored with one address and then overwritten
\* with another one under a different spelling
C26_Witness ==
  \E c1, c2 \in Calls :
    /\ FollowingUpsert(c1, c2)
    /\ calls[c1].ok /\ calls[c2].ok
    /\ calls[c1].wallet # calls[c2].wallet
    /\ calls[c2].msg = "Updated contact with new address"
    /\ resolveAlias(calls[c2].phone, " Mama") = calls[c2].wallet

\* the request of call c carried a valid signature of its body or, without
\* a signature header, the configured API key
Authenticated(c) ==
  \/ /\ calls[c].signature = NoSignature
     /\ calls[c].body.apiKey = WebhookApiKey
  \/ /\ calls[c].signature # NoSignature
     /\ calls[c].signature.key = WebhookSecret
     /\ calls[c].signature.payload = stringify(parseJson(calls[c].body))
     /\ calls[c].signature.length = 64

\* the rows call c has written
WrittenBy(c) ==
  {t \in transactions : t.by = c}
    \cup {notification_queue[i] : i \in {j \in DOMAIN notification_queue :
                                          notification_queue[j].by = c}}
    \cup {t \in supported_tokens : t.by = c}
    \cup {t \in token_prices : t.by = c}

LostSend(c) ==
  /\ calls[c].kind = "send" /\ calls[c].pc = "done" /\ ~calls[c].ok
  /\ calls[c].landedSig # 0
  /\ ~existingTx(calls[c].landedSig)

\* C28: when a transfer submitted by sendTokens landed and sendTokens
\* returned failure without recording it, the running watcher eventually
\* records a transactions row with the signature of the transfer.
C28_WatcherRecordsLostSend ==
  \A c \in Calls :
    LostSend(c) ~> (\E t \in transactions : t.sig = calls[c].landedSig)

\* C28: the watcher posted the lost transfer and was answered that the
\* recipient is no wallet of the system
C28_WatcherAnswered404 ==
  /\ LostSend(1)
  /\ calls[WatcherCall].kind = "webhook" /\ calls[WatcherCall].pc = "done"
  /\ calls[WatcherCall].sig = calls[1].landedSig
  /\ calls[WatcherCall].msg = "Recipient not found in system"

\* sendTokens call c returned success for a transfer to the active wallet
\* of another user
SentToOtherUser(c) ==
  /\ calls[c].kind = "send" /\ calls[c].pc = "done" /\ calls[c].ok
  /\ walletOwner(calls[c].recipient) \notin {"none", walletOwner(calls[c].wallet)}
  /\ getWalletByPhoneNumber(walletOwner(calls[c].recipient)) = calls[c].recipient

\* a transaction notification is enqueued for user u, or u opted out
AlertedOrOptedOut(u) ==
  \/ \E i \in DOMAIN notification_queue :
       notification_queue[i].user = u /\ notification_queue[i].type = "TRANSACTION"
  \/ u \in Registered /\ ~users[u].wants.transactions

\* C29: after a successful SEND to the active wallet of another user a
\* transaction notification is eventually enqueued for the sender and for
\* the recipient, unless that party opted out.
C29_BothPartiesAlerted ==
  \A c \in Calls :
    SentToOtherUser(c)
      ~> /\ AlertedOrOptedOut(walletOwner(calls[c].wallet))
         /\ AlertedOrOptedOut(walletOwner(calls[c].recipient))

\* C29: the SEND is recorded and the sender alerted, the watcher finds the
\* signature processed and no alert is enqueued for the recipient
C29_RecipientNotAlerted ==
  /\ SentToOtherUser(1)
  /\ existingTx(calls[1].landedSig)
  /\ AlertedOrOptedOut(walletOwner(calls[1].wallet))
  /\ ~AlertedOrOptedOut(walletOwner(calls[1].recipient))
  /\ calls[WatcherCall].pc = "idle"

\* the reply of the first failing check in the order C30 gives: amount,
\* asset, recipient, sender wallet, balance; "none" when every check passes
FirstFailureAsStated(p, amt, tok, rcp) ==
  LET w == getWalletByPhoneNumber(p)
      asset == IF tok = "SOL" THEN "SOL" ELSE getTokenBySymbol(tok)
  IN IF amt <= 0 THEN "Amount must be greater than 0"
     ELSE IF asset = "none" THEN "Unsupported token"
     ELSE IF ~IsValidAddress(rcp) THEN "Invalid recipient address"
     ELSE IF w = "none" THEN "No wallet found"
     ELSE IF bal[w][asset] < amt THEN "Insufficient balance"
     ELSE "none"

\* the address handleSendCommand passes to sendTokens for call c
ResolvedRecipient(c) ==
  IF ShorterThan32(calls[c].recipient)
       /\ resolveAlias(calls[c].phone, calls[c].recipient) # "none"
  THEN resolveAlias(calls[c].phone, calls[c].recipient)
  ELSE calls[c].recipient

\* C30: sendTokens checks amount > 0, asset resolvable, recipient valid,
\* sender wallet present, fresh balance >= amount, in this order: its reply
\* is that of the first check that fails in this order, and the private key
\* is decrypted only when the checks before the balance have passed.
C30_ValidationOrder ==
  [][\A c \in Calls :
       (/\ calls[c].kind = "command" /\ calls[c].pc = "gated" /\ calls[c].cmd = "SEND"
        /\ calls[c].amount > 0
        /\ calls'[c] # calls[c])
         => /\ calls'[c].msg = FirstFailureAsStated(calls[c].phone, calls[c].amount,
                                                    calls[c].token, ResolvedRecipient(c))
            /\ calls'[c].keyDecrypted
                 => FirstFailureAsStated(calls[c].phone, calls[c].amount, calls[c].token,
                                         ResolvedRecipient(c))
                      \in {"Insufficient balance", "none"}]_vars

----------------------------------------------------------------------------
(* Properties of disable2FA, checked under SpecSecurity *)

\* the verification_codes rows of a user
UserCodes(codes, u) == SelectSeq(codes, LAMBDA row : row.user = u)

\* the step belongs to the disable2FA call c
Disable2FAStep(c) ==
  /\ calls'[c] # calls[c]
  /\ calls'[c].kind = "disable2FA"

\* C31: disable2FA is atomic.  Every step of a disable2FA call, the step
\* after a failure between its two writes included, either leaves the user's
\* row and verification codes as they were, or leaves two_factor_enabled
\* false and none of the user's verification codes; a call for a user whose
\* second factor is off is rejected and changes nothing.
C31_Disable2FAAtomic ==
  [][\A c \in Calls :
       Disable2FAStep(c) =>
         LET u == calls'[c].phone
         IN /\ \A v \in Registered \ {u} :
                 /\ users'[v] = users[v]
                 /\ UserCodes(verification_codes', v) = UserCodes(verification_codes, v)
            /\ u \in Registered =>
                 \/ /\ users'[u] = users[u]
                    /\ UserCodes(verification_codes', u) = UserCodes(verification_codes, u)
                 \/ /\ users[u].two_factor_enabled
                    /\ users'[u] = [users[u] EXCEPT !.two_factor_enabled = FALSE]
                    /\ UserCodes(verification_codes', u) = <<>>
            /\ (calls[c].pc = "idle" /\ u \in Registered /\ ~users[u].two_factor_enabled)
                 => /\ calls'[c].pc = "done" /\ ~calls'[c].ok
                    /\ calls'[c].msg = "2FA is not enabled on your account."
                    /\ users' = users
                    /\ verification_codes' = verification_codes]_vars

\* a disable2FA call has committed for a user to whom a code had been sent:
\* the second factor is off and the code is gone
C31_Witness ==
  \E c, d \in Calls :
    /\ calls[c].kind = "disable2FA" /\ calls[c].pc = "done" /\ calls[c].ok
    /\ calls[d].kind = "sendVerificationCode" /\ calls[d].pc = "done"
    /\ calls[d].msg = "Verification code sent. Please reply with CODE to proceed."
    /\ calls[d].phone = calls[c].phone
    /\ ~users[calls[c].phone].two_factor_enabled
    /\ UserCodes(verification_codes, calls[c].phone) = <<>>

----------------------------------------------------------------------------
(* Properties of verifyPin, checked under SpecVerifyPinLive *)

\* the call has passed the comparison for a user whose PIN awaits verification
FirstVerification(c) ==
  /\ calls[c].kind = "verifyPin"
  /\ calls[c].pc = "updated"

\* the call has returned success, the user's PIN is verified and the call has
\* left one security notification, or none for a user who switched them off
VerifiedAndNotified(c) ==
  /\ calls[c].kind = "verifyPin" /\ calls[c].pc = "done" /\ calls[c].ok
  /\ users[calls[c].phone].pin_verified
  /\ Cardinality(NotifsBy(c)) =
       IF preferenceIsFalse(users[calls[c].phone].prefs, "security") THEN 0 ELSE 1

\* a verifyPin call with the matching PIN for a user whose PIN is verified
\* returns success and writes nothing
C32_RepeatIsNoOp ==
  [][\A c \in Calls :
       (/\ calls[c].pc = "idle" /\ calls'[c].kind = "verifyPin"
        /\ calls'[c].phone \in Registered
        /\ users[calls'[c].phone].pin # NoPin
        /\ users[calls'[c].phone].pin_verified
        /\ pinMatches(calls'[c].input, users[calls'[c].phone].pin))
       => /\ calls'[c].pc = "done" /\ calls'[c].ok
          /\ users' = users
          /\ notification_queue' = notification_queue
          /\ verification_codes' = verification_codes]_vars

\* C32: verifyPin with the correct PIN moves a user from PinSetNotVerified to
\* PinVerified and enqueues one security notification; with the correct PIN
\* for a user who is PinVerified already it returns success and changes
\* nothing.
C32_VerifyPinIdempotent ==
  /\ C32_RepeatIsNoOp
  /\ \A c \in Calls : FirstVerification(c) ~> VerifiedAndNotified(c)

\* a verifyPin call with the correct PIN waits for its own row lock
C32_FirstVerificationHangs ==
  \E c \in Calls :
    /\ calls[c].kind = "verifyPin" /\ calls[c].pc = "blocked"
    /\ pinMatches(calls[c].input, users[calls[c].phone].pin)
    /\ ~users[calls[c].phone].pin_verified

----------------------------------------------------------------------------
(* Properties of requirePin, checked under SpecAuth *)

\* the step is the requirePin call of the command c
GateStep(c) == calls[c].pc = "idle" /\ calls'[c].kind = "command"

\* requirePin answered verified: the command went on to its handler
AnsweredVerified(r) == r.pc = "gated"

\* the message of requirePin's catch block
ReadFailed(r) == r.msg = "Error checking security status. Please try again."

\* requirePin wrote nothing
GateWritesNothing ==
  /\ users' = users
  /\ verification_codes' = verification_codes
  /\ notification_queue' = notification_queue

\* C33: requirePin is a pure read.  In every state and for every user it
\* answers verified exactly when the user exists, has a stored PIN and
\* pin_verified is true, otherwise not verified with a message, and it leaves
\* users, verification codes and the notification queue unchanged.
C33_RequirePinPureRead ==
  [][\A c \in Calls :
       GateStep(c) =>
         /\ AnsweredVerified(calls'[c]) <=> calls'[c].pinOk
         /\ ~AnsweredVerified(calls'[c]) => calls'[c].msg \in GuidanceMessages
         /\ GateWritesNothing]_vars

\* C33 as the code has it: requirePin answers verified exactly when its
\* SELECT succeeds and the user exists, has a stored PIN and pin_verified is
\* true; when the SELECT throws it answers not verified with the error
\* message, whatever the user's state; it writes nothing.
C33_RequirePinPureRead_Amended ==
  [][\A c \in Calls :
       GateStep(c) =>
         /\ ReadFailed(calls'[c]) => ~AnsweredVerified(calls'[c])
         /\ ~ReadFailed(calls'[c]) => (AnsweredVerified(calls'[c]) <=> calls'[c].pinOk)
         /\ ~AnsweredVerified(calls'[c]) => calls'[c].msg \in GuidanceMessages
         /\ GateWritesNothing]_vars

\* requirePin has answered verified for one command and, after a failed
\* SELECT, not verified for another command of a user with a verified PIN
C33_Witness ==
  \E c, d \in Calls :
    /\ calls[c].kind = "command" /\ AnsweredVerified(calls[c]) /\ calls[c].pinOk
    /\ calls[d].kind = "command" /\ calls[d].pc = "done"
    /\ ReadFailed(calls[d]) /\ calls[d].pinOk

----------------------------------------------------------------------------
(* Properties of the expiry of codes, checked under SpecCodeExpiry *)

\* the position of the latest code of a user and operation
LatestCode(u, operation) ==
  CHOOSE j \in CodesOf(u, operation) : \A k \in CodesOf(u, operation) : k <= j

\* the latest code of the user and operation has expired: the clock is past
\* its issue time plus 15 minutes
Expired(u, operation) ==
  /\ u \in Registered
  /\ CodesOf(u, operation) # {}
  /\ now > verification_codes[LatestCode(u, operation)].expires_at

\* C34: verifyCode never accepts a code at a time later than its expiry
\* (issue time + 15 minutes), even when the submitted code matches and is
\* unused; the rejected code stays unused and no notification is enqueued.
C34_ExpiredCodeRejected ==
  [][\A c \in Calls :
       (/\ calls[c].pc = "idle" /\ calls'[c].kind = "verifyCode"
        /\ Expired(calls'[c].phone, calls'[c].operation))
       => /\ calls'[c].pc = "done" /\ ~calls'[c].ok
          /\ verification_codes' = verification_codes
          /\ notification_queue' = notification_queue]_vars

\* a verifyCode call with the matching code was rejected for the expiry of
\* the code, which is still unused
C34_Witness ==
  \E c \in Calls :
    /\ calls[c].kind = "verifyCode" /\ calls[c].pc = "done" /\ ~calls[c].ok
    /\ calls[c].msg = "This code has expired. Please request a new code."
    /\ Expired(calls[c].phone, calls[c].operation)
    /\ LET row == verification_codes[LatestCode(calls[c].phone, calls[c].operation)]
       IN /\ codeMatches(calls[c].input, row.code)
          /\ ~row.is_used
          /\ row.expires_at = row.created_at + CodeTtlMinutes
    /\ notification_queue = <<>>

----------------------------------------------------------------------------
(* Properties of cleanupOldNotifications, checked under SpecCleanup *)

\* the row is unsent and has attempts left
Pending(row) == ~row.is_sent /\ row.retry_count < row.max_retries

\* the row is terminal and younger than the retention window: sent within
\* the last 30 days, or exhausted and created within the last 30 days
TerminalAndYoung(row) ==
  \/ row.is_sent /\ row.sent_at[1] >= now - RetentionMinutes
  \/ /\ ~row.is_sent /\ row.retry_count >= row.max_retries
     /\ row.created_at >= now - RetentionMinutes

\* the rows the sweep has to leave in place
MustStay(row) == Pending(row) \/ TerminalAndYoung(row)

\* C35: cleanupOldNotifications deletes only terminal, aged-out rows.  A step
\* that removes rows from notification_queue leaves every pending row, and
\* every sent or exhausted row younger than the retention window, in place.
C35_CleanupOnlyTerminalAged ==
  [][Len(notification_queue') < Len(notification_queue)
       => SelectSeq(notification_queue', MustStay)
            = SelectSeq(notification_queue, MustStay)]_vars

\* a sweep has deleted rows and has left a pending row older than the
\* retention window in place
C35_Witness ==
  /\ \E c \in Calls :
       /\ calls[c].kind = "cleanupOldNotifications"
       /\ calls[c].amount > 0
  /\ \E i \in DOMAIN notification_queue :
       /\ Pending(notification_queue[i])
       /\ notification_queue[i].created_at < now - RetentionMinutes

----------------------------------------------------------------------------
(* Properties of the recipient lookup of SEND, checked under SpecSendCommand *)

\* the text with its letters in upper case
UpperCase(text) ==
  CASE text \in {"MAMA", "mama"} -> "MAMA"
    [] OTHER -> text

\* the contacts of the sender whose alias is the text, case ignored
OwnContactsNamed(p, text) ==
  {row \in contacts : row.user = p /\ UpperCase(row.alias) = UpperCase(text)}

\* the address SEND is to use: the stored address of the sender's contact
\* when there is one, the literal text otherwise
AddressFor(p, text) ==
  IF OwnContactsNamed(p, text) # {}
  THEN (CHOOSE row \in OwnContactsNamed(p, text) : TRUE).wallet_address
  ELSE text

----------------------------------------------------------------------------
(* Properties of parseCommand, checked under SpecParse *)

\* the first word of the message is none of the commands
UnknownKeyword(m) ==
  toUpperCase(m.w1) \notin {"CREATE", "BALANCE", "HISTORY", "SEND"}

\* the message is a SEND whose amount word is not a number: some character
\* of the word is not a digit
MalformedAmount(m) ==
  /\ toUpperCase(m.w1) = "SEND"
  /\ \E i \in DOMAIN m.w2 : m.w2[i] \notin Digits

\* the step parses the message of call c, answers with the help message and
\* changes no user, wallet, contact or transaction
AnsweredWithHelp(c) ==
  /\ calls'[c].cmd = "UNKNOWN"
  /\ calls'[c].pc = "done"
  /\ calls'[c].msg = "Available commands"
  /\ users' = users
  /\ directoryVars' = directoryVars
  /\ transactions' = transactions

\* a message whose first word is no command is answered with the help
\* message and changes nothing
C37_UnknownKeywordGetsHelp ==
  [][\A c \in Calls :
       (calls[c].pc = "received" /\ calls'[c] # calls[c]
        /\ UnknownKeyword(calls[c].text))
       => AnsweredWithHelp(c)]_vars

\* C37: parseCommand is total.  A text whose keyword is not one of the
\* commands, or a SEND whose amount word is not a well-formed number, parses
\* to UNKNOWN; processCommand answers it with the static help message and
\* changes no user, wallet, contact or transaction state.
C37_MalformedYieldsUnknown ==
  [][\A c \in Calls :
       (calls[c].pc = "received" /\ calls'[c] # calls[c]
        /\ (UnknownKeyword(calls[c].text) \/ MalformedAmount(calls[c].text)))
       => AnsweredWithHelp(c)]_vars

\* ---- C38 ----
\* the calls of sendTokens and recordIncomingTransaction that have returned,
\* their client released by the finally block
ReleasedClients ==
  {c \in Calls : calls[c].kind \in {"send", "record", "webhook"}
                 /\ calls[c].pc = "done" /\ calls[c].txn # "none"}

\* C38: every sendTokens and recordIncomingTransaction call ends its
\* transaction, by COMMIT or by ROLLBACK, before it releases its connection,
\* on every return path: no connection goes back to the pool with an open
\* transaction.
C38_TransactionEndedBeforeRelease ==
  \A c \in ReleasedClients : calls[c].txn \in {"committed", "rolledback"}

\* C38 on the paths that reach COMMIT or the catch block: a call that
\* returned success committed, a call that met a thrown error rolled back
C38_CommitAndCatchPathsEnd ==
  \A c \in ReleasedClients :
    /\ calls[c].ok => calls[c].txn = "committed"
    /\ calls[c].fault => calls[c].txn = "rolledback"

\* a validation failure of sendTokens has released its client
C38_ValidationFailureReleased ==
  \E c \in ReleasedClients :
    calls[c].kind = "send" /\ calls[c].msg = "Amount must be greater than 0"

\* ---- C39 ----
\* C39: every authorization operation that locks the user's row (setupPin,
\* verifyPin, setup2FA, disable2FA, sendVerificationCode, resetPin,
\* completeResetPin) terminates, its transaction committed or rolled back.
C39_LockingOperationsTerminate ==
  \A c \in Calls :
    (calls[c].kind \in LockingOperations) ~> (calls[c].pc = "done")

\* C39, second half: the enqueue of the security notification through the
\* pool never waits for a lock that the operation's own transaction holds.
C39_EnqueueNeverWaitsOnOwnLock ==
  \A c \in Calls : calls[c].kind \in LockingOperations => calls[c].pc # "blocked"

\* C39 for the users whose security notifications are switched off: the
\* enqueue returns before its INSERT and the operation terminates
C39_TerminatesWithoutSecurityAlerts ==
  \A c \in Calls :
    (/\ calls[c].kind \in LockingOperations
     /\ calls[c].phone \in Phones
     /\ calls[c].phone \in Registered
     /\ preferenceIsFalse(users[calls[c].phone].prefs, toLowerCase("SECURITY")))
      ~> (calls[c].pc = "done")

\* ---- C40 ----
\* the rows a finished lookup returned that are older than an update of
\* their mint which had returned true before the lookup was called
StaleRows(l) ==
  {r \in lookups[l].rows :
     r.mint_address \in Mints /\ r.version < lookups[l].known[r.mint_address]}

\* C40: after addSupportedToken(mint, symbol, ...) has returned true, every
\* later getTokenBySymbol, getSupportedTokens and getTokenBalance call uses
\* metadata of that mint at least as new as the update: no cache entry filled
\* from a database read made before the update is served after it.
C40_LookupsSeeReturnedUpdates ==
  \A l \in Lookups : lookups[l].pc = "done" => StaleRows(l) = {}

\* C40 for the lookups that miss the cache: what they read from the
\* database is as new as every update that had returned
C40_DatabaseReadsAreCurrent ==
  \A l \in Lookups : ~lookups[l].hit => StaleRows(l) = {}

\* C40 without any overlap: when no lookup was between its SELECT and its
\* tokenCache.set while an update was made, every lookup called after the
\* update returned sees it
C40_SequentialLookupsSeeUpdates ==
  (\A a \in Calls : calls[a].kind = "addSupportedToken" => calls[a].during = {})
    => \A l \in Lookups : lookups[l].pc = "done" => StaleRows(l) = {}

\* a lookup called after an update of an existing mint returned true has
\* returned the row that update wrote
C40_LookupAfterUpdate ==
  \E l \in Lookups :
    /\ lookups[l].pc = "done"
    /\ \E r \in lookups[l].rows :
         r.version > 0 /\ r.mint_address = "mUSDC" /\ lookups[l].known["mUSDC"] = r.version

====
